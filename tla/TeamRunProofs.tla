---------------------------- MODULE TeamRunProofs ----------------------------
(***************************************************************************)
(* Theorems about TeamRun, for any number of tasks, members and retries,   *)
(* any session state and every choice of entry points.                     *)
(*                                                                         *)
(* ControlInv and FlagInv say what holds of the leader at each point of    *)
(* its function; MemberInv how the members' runs, what is stored of them   *)
(* and what the leader left behind belong together; CauseInv why the team  *)
(* may be cancelled; OrderInv and WriteInv who wrote what the session      *)
(* state holds.                                                            *)
(***************************************************************************)
EXTENDS TeamRun, TLAPS

\* Where the code around a member's run may be.
Delegations == {"none", "waiting", "running", "told", "over", "cut"}

Tracked == cancelledRuns[Leader] # "untracked"
IsCancelled == cancelledRuns[Leader] = "cancelled"

\* Where the leader is when its call has an exit.
Leaving == {"finally", "ended", "backoff"}

ControlInv ==
    /\ pc \in TryPoints => Tracked
    /\ pc \in {"idle", "called", "backoff"} => ~Tracked
    /\ pc = "setup" /\ function \in RegistersOnEntry => Tracked
    /\ pc = "ended" /\ Tracked => exit \in {"setup", "abandon"}
    /\ pc \notin Leaving => exit = "none"
    /\ pc = "backoff" => exit = "provider" /\ function \in Retrying /\ attempt < MaxRetries
    /\ exit = "return" => status \in {"completed", "cancelled"}

FlagInv ==
    /\ acked = "in time" /\ Tracked => IsCancelled
    /\ IsCancelled => acked # "none"
    /\ pc = "storing" => acked # "in time"
    /\ exit = "return" /\ status = "completed" => acked # "in time"

\* What the task, the member's run and the store say of one member.
TaskInv(t) ==
    /\ delegation[t] = "none" <=> t > asked
    /\ delegation[t] \in {"none", "waiting"} => phase[t] = "new"
    /\ delegation[t] = "running" <=> phase[t] = "running"
    /\ delegation[t] \in {"told", "cut"} =>
            function = "_run_stream" /\ phase[t] \in {"completed", "paused"}
    /\ delegation[t] \in {"waiting", "running", "told"} => t \in batch \cup orphans
    /\ phase[t] = "new" => ~requested[t]
    /\ t \in runs => delegation[t] = "over" /\ HasResponse(phase[t])
    /\ phase[t] = "completed" => t \in runs \/ delegation[t] \in {"told", "cut"}

MemberInv ==
    /\ pc # "delegating" => batch = {}
    /\ pc = "idle" => asked = 0
    /\ \A t \in Tasks : TaskInv(t)

\* Who leaves members at work, and how it ends.
OrphanInv ==
    orphans # {} =>
        /\ IsAsync
        /\ pc \in {"cancelling", "cancel_event", "finally", "ended"}
        /\ exit = "return" => status # "completed"
        /\ toAll \/ acked # "none" \/ exit = "abandon"

StoreInv ==
    db.status # "none" =>
        /\ pc \in {"finally", "ended"} /\ exit = "return" /\ db.status = status
        /\ runs \subseteq db.members \cup orphans

\* What members raise.
RaisedInv ==
    \A t \in Tasks :
        /\ delegation[t] # "over" => raised[t] = "none"
        /\ raised[t] = "cancelled" => requested[t] \/ interrupted

CauseInv ==
    /\ pc = "idle" => acked = "none" /\ ~interrupted
    /\ pc \in {"cancelling", "cancel_event"} => Requested
    /\ exit = "return" /\ status = "cancelled" => Requested

IInv == /\ TypeOK /\ ControlInv /\ FlagInv /\ MemberInv /\ OrphanInv /\ StoreInv
        /\ RaisedInv /\ CauseInv

\* The order of the tasks, in which synchronous members are executed.
OrderInv ==
    /\ \A t \in Tasks, u \in batch : t <= asked /\ t \notin batch => t < u
    /\ ~IsAsync =>
        \A t \in batch : delegation[t] \in {"running", "told", "over"} =>
            \A u \in batch : u < t => delegation[u] = "over"

\* Whom the event of its own end has cut off.
CutInv ==
    /\ CutOff # {} =>
          /\ function = "_run_stream" /\ pc \in {"cancel_event", "finally", "ended"}
          /\ exit = "return" => status = "cancelled"
    /\ \A t, u \in CutOff : t = u

\* A member whose run is over may have written to its copy what is not merged.
Unmerged(t) == IF delegation[t] = "told" THEN {t} ELSE {}

\* Who has written what the state and the copies hold.
WriteInv ==
    /\ \A t \in Tasks : delegation[t] # "over" => written[t] = {}
    /\ \A k \in Keys : state[k] \in {InitialState[k]} \cup Writers(k)
    /\ \A t \in Tasks, k \in Keys :
            copy[t][k] \in {InitialState[k]} \cup Writers(k) \cup Unmerged(t)
    /\ ~IsAsync => \A t \in Tasks :
            /\ delegation[t] = "running" => copy[t] = state
            /\ delegation[t] = "told" => \A k \in Keys : copy[t][k] \in {state[k], t}

----------------------------------------------------------------------------
(* Types.                                                                  *)

\* The operations of the registry on its one entry.
LEMMA CancellationTypes ==
    ASSUME TypeOK
    PROVE  /\ Cancellation!RegisterRun(Leader)
                => Cancellation!CancellationTypeOK' /\ Tracked' /\ ~IsCancelled'
           /\ Cancellation!CancelRun(Leader)
                => Cancellation!CancellationTypeOK' /\ Tracked' = Tracked
                   /\ (IsCancelled' <=> Tracked)
           /\ Cancellation!CleanupRun(Leader)
                => Cancellation!CancellationTypeOK' /\ ~Tracked'
           /\ UNCHANGED cancelledRuns => Cancellation!CancellationTypeOK'
  BY DEF TypeOK, Cancellation!CancellationTypeOK, Cancellation!Flags,
         Cancellation!RegisterRun, Cancellation!CancelRun, Cancellation!Tracked,
         Cancellation!CleanupRun, Tracked, IsCancelled

LEMMA InitTypes == Init => TypeOK
  <1> SUFFICES ASSUME Init PROVE TypeOK
    OBVIOUS
  <1>1. Cancellation!CancellationTypeOK
    BY DEF Init, Cancellation!CancellationInit, Cancellation!CancellationTypeOK,
           Cancellation!Flags
  <1>2. InitialState \in Merge!States
    BY CountsAssumption DEF InitialState, Merge!States, Values
  <1>3. phase \in [Tasks -> Members!Phases] /\ requested \in [Tasks -> BOOLEAN]
    BY DEF Init, Members!LifecycleInit, Members!Phases
  <1>4. {toAll, streamed, interrupted} \subseteq BOOLEAN
    BY ChoicesAssumption DEF Init
  <1> QED
    BY <1>1, <1>2, <1>3, <1>4, CountsAssumption
    DEF Init, TypeOK, AllFunctions, Points, Exceptions, Acks

\* A member's result is processed when its run ends, or when its delegation is
\* resumed after the run has told that it is over.
LEMMA EndsProcess ==
    ASSUME TypeOK, MemberInv, NEW t \in Tasks, MemberEnds(t) \/ MemberRecorded(t)
    PROVE  /\ delegation[t] \in {"running", "told"} /\ requested' = requested
           /\ phase'[t] \in {"paused", "completed", "cancelled", "failed"}
           /\ phase'[t] = "cancelled" => requested[t]
           /\ \A u \in Tasks : u # t => phase'[u] = phase[u]
           /\ \E result \in Merge!States :
                 /\ Process(t, phase'[t], result)
                 /\ \A k \in Keys : result[k] \in {t, copy[t][k]}
<1>1. CASE MemberEnds(t)
  <2>1. PICK W \in SUBSET Keys : Process(t, phase'[t], Result(t, W))
    BY <1>1 DEF MemberEnds
  <2>2. /\ Result(t, W) \in Merge!States
        /\ \A k \in Keys : Result(t, W)[k] \in {t, copy[t][k]}
    BY DEF Result, Merge!States, Values, Tasks, TypeOK
  <2> QED
    BY <1>1, <2>1, <2>2 DEF MemberEnds, Members!Stop, TypeOK
<1>2. CASE MemberRecorded(t)
  <2>1. phase' = phase /\ Process(t, phase'[t], copy[t])
    BY <1>2 DEF MemberRecorded
  <2> QED
    BY <1>2, <2>1 DEF MemberRecorded, MemberInv, TaskInv, TypeOK
<1> QED
  BY <1>1, <1>2

\* Every action of the leader and of the clients keeps the types, and every
\* action of a member.
LEMMA NextTypes == TypeOK /\ ControlInv /\ MemberInv /\ [Next]_vars => TypeOK'
<1> SUFFICES ASSUME TypeOK, ControlInv, MemberInv, [Next]_vars PROVE TypeOK'
  OBVIOUS
<1> USE CountsAssumption
<1> USE DEF TypeOK, Goto
<1>c. UNCHANGED cancelledRuns => Cancellation!CancellationTypeOK'
  BY CancellationTypes
<1>r. RegisterRun => Cancellation!CancellationTypeOK' /\ acked' \in Acks
  BY CancellationTypes DEF RegisterRun, Acks
<1>l. LeaveDelegation => /\ batch' \subseteq 1 .. asked /\ orphans' \subseteq 1 .. asked
                         /\ delegation' \in [Tasks -> Delegations]
                         /\ raised' \in [Tasks -> Exceptions \cup {"none"}]
                         /\ phase' \in [Tasks -> Members!Phases]
                         /\ requested' \in [Tasks -> BOOLEAN]
                         /\ copy' \in [Tasks -> Merge!States]
  <2>1. InitialState \in Merge!States
    BY CountsAssumption DEF InitialState, Merge!States, Values
  <2>2. CASE IsAsync
    BY <2>2 DEF LeaveDelegation, AtWork, memberVars, Delegations
  <2>3. CASE ~IsAsync
    <3> SUFFICES ASSUME LeaveDelegation
                 PROVE  /\ batch' \subseteq 1 .. asked /\ orphans' \subseteq 1 .. asked
                        /\ delegation' \in [Tasks -> Delegations]
                        /\ raised' \in [Tasks -> Exceptions \cup {"none"}]
                        /\ phase' \in [Tasks -> Members!Phases]
                        /\ requested' \in [Tasks -> BOOLEAN]
                        /\ copy' \in [Tasks -> Merge!States]
      OBVIOUS
    <3>1. phase' \in [Tasks -> Members!Phases]
      BY <2>3 DEF LeaveDelegation, Members!Phases
    <3>2. copy' \in [Tasks -> Merge!States]
      BY <2>1, <2>3 DEF LeaveDelegation
    <3>3. delegation' \in [Tasks -> Delegations]
      BY <2>3 DEF LeaveDelegation, Delegations
    <3> QED
      BY <2>3, <3>1, <3>2, <3>3 DEF LeaveDelegation
  <2> QED
    BY <2>2, <2>3
<1>1. CASE UNCHANGED vars
  BY <1>1, <1>c DEF vars, leaderVars, taskVars, memberVars, sessionVars, historyVars
<1>2. CASE LeaderStep
  <2>1. CASE Begin
    BY <2>1, <1>c, <1>r DEF Begin, Points, taskVars, memberVars, sessionVars
  <2>2. CASE SetupDone
    BY <2>2, <1>c, <1>r DEF SetupDone, Points, TryPoints, taskVars, memberVars, sessionVars
  <2>3. CASE SetupFails
    BY <2>3, <1>c DEF SetupFails, Points, taskVars, memberVars, sessionVars, historyVars
  <2>4. CASE Look
    BY <2>4, <1>c DEF Look, Cancelled, After, Points, TryPoints, taskVars, memberVars,
                      sessionVars, historyVars
  <2>5. CASE ModelAnswers
    BY <2>5, <1>c DEF ModelAnswers, Responds, Cancelled, Points, TryPoints, taskVars,
                      memberVars, sessionVars, historyVars
  <2>6. CASE Delegate
    BY <2>6, <1>c DEF Delegate, Points, TryPoints, sessionVars, historyVars, Tasks
  <2>7. CASE DelegationDone
    BY <2>7, <1>c, <1>l DEF Delegations, DelegationDone, Responds, Cancelled, Points, TryPoints,
                            sessionVars
  <2>8. CASE DelegationRaises
    BY <2>8, <1>c, <1>l DEF Delegations, DelegationRaises, Cancelled, Points, TryPoints,
                            sessionVars, Surfacing, Raised, First, Exceptions, Tasks
  <2>9. CASE StepFails
    BY <2>9, <1>c DEF StepFails, Points, taskVars, memberVars, sessionVars, historyVars
  <2>10. ASSUME NEW outcome \in {"completed", "cancelled"}, CleanupAndStore(outcome)
         PROVE  TypeOK'
    <3>1. db' \in [status : {"none", "completed", "cancelled"}, members : SUBSET runs']
      BY <2>10 DEF CleanupAndStore
    <3> QED
      BY <2>10, <3>1, <1>c DEF CleanupAndStore, Points, taskVars, memberVars, historyVars
  <2>11. CASE Finally
    BY <2>11, CancellationTypes DEF Finally, Points, taskVars, memberVars,
                                    sessionVars, historyVars
  <2>12. CASE Backoff
    BY <2>12, <1>c DEF Backoff, ControlInv, Points, taskVars, memberVars,
                       sessionVars, historyVars
  <2> QED
    BY <1>2, <2>1, <2>2, <2>3, <2>4, <2>5, <2>6, <2>7, <2>8, <2>9, <2>10, <2>11,
       <2>12 DEF LeaderStep, Complete, StoreCancelled
<1>3. ASSUME NEW t \in Tasks, StartMember(t) PROVE TypeOK'
  BY <1>3, <1>c DEF StartMember, Members!Begin, Members!Phases, leaderVars, taskVars,
                    sessionVars, historyVars
<1>4. ASSUME NEW t \in Tasks, MemberEnds(t) \/ MemberRecorded(t) PROVE TypeOK'
  <2>1. phase' \in [Tasks -> Members!Phases] /\ requested' \in [Tasks -> BOOLEAN]
    BY <1>4 DEF MemberEnds, MemberRecorded, Members!Stop, Members!Phases
  <2>2. PICK result \in Merge!States : Process(t, phase'[t], result)
    BY <1>4, EndsProcess
  <2>3. raised' \in [Tasks -> Exceptions \cup {"none"}]
    <3>1. \A outcome : Raises(outcome) \subseteq Exceptions \cup {"none"}
      BY DEF Raises, Exceptions
    <3> QED
      BY <2>2, <3>1 DEF Process
  <2>4. InitialState \in Merge!States /\ copy' \in [Tasks -> Merge!States]
    BY <2>2, CountsAssumption DEF Process, InitialState, Merge!States, Values
  <2>5. state' \in Merge!States
    BY <2>2 DEF Process, Merge!MergeDictionaries, Merge!States
  <2>6. written' \in [Tasks -> SUBSET Keys]
    BY <2>2 DEF Process
  <2>7. runs' \subseteq 1 .. asked' /\ runs \subseteq runs'
    <3>1. t \in 1 .. asked
      BY <1>4 DEF MemberEnds, MemberRecorded, MemberInv, TaskInv, Tasks
    <3>2. asked' = asked
      BY <1>4 DEF MemberEnds, MemberRecorded, taskVars
    <3> QED
      BY <2>2, <3>1, <3>2 DEF Process
  <2>8. delegation' \in [Tasks -> Delegations]
    BY <2>2 DEF Process, Delegations
  <2> QED
    BY <1>4, <1>c, <2>1, <2>3, <2>4, <2>5, <2>6, <2>7, <2>8
    DEF MemberEnds, MemberRecorded, leaderVars, taskVars, Delegations
<1>6. ASSUME NEW t \in Tasks, MemberTells(t) PROVE TypeOK'
  <2>1. phase' \in [Tasks -> Members!Phases] /\ requested' = requested
    BY <1>6 DEF MemberTells, Members!Stop, Members!Phases
  <2>2. PICK W \in SUBSET Keys : copy' = [copy EXCEPT ![t] = Result(t, W)]
    BY <1>6 DEF MemberTells
  <2>3. Result(t, W) \in Merge!States
    BY DEF Result, Merge!States, Values, Tasks
  <2> QED
    BY <1>6, <1>c, <2>1, <2>2, <2>3
    DEF MemberTells, leaderVars, taskVars, sessionVars, historyVars
<1>5. CASE ClientStep
  <2>1. CASE Call
    BY <2>1, <1>c, EntryPointsAssumption
    DEF Call, Points, taskVars, memberVars, sessionVars, historyVars
  <2>2. CASE CancelRequest
    BY <2>2, CancellationTypes
    DEF CancelRequest, Acks, leaderVars, taskVars, memberVars, sessionVars
  <2>3. CASE Abandon
    <3>1. pc' \in Points /\ status' \in {"running", "completed", "cancelled"}
      BY <2>3 DEF Abandon, Points
    <3>2. CASE pc = "delegating"
      BY <2>3, <3>1, <3>2, <1>c, <1>l DEF Abandon, Delegations, sessionVars
    <3>3. CASE pc # "delegating"
      BY <2>3, <3>1, <3>3, <1>c DEF Abandon, memberVars, sessionVars
    <3> QED
      BY <3>2, <3>3
  <2>4. CASE CancelledWhileDelegating
    BY <2>4, <1>c, <1>l
    DEF Delegations, CancelledWhileDelegating, Cancelled, Points, TryPoints, sessionVars
  <2>5. ASSUME NEW t \in Tasks, CancelMember(t) PROVE TypeOK'
    BY <2>5, <1>c DEF CancelMember, Members!Request, leaderVars, taskVars, sessionVars,
                      historyVars
  <2>6. ASSUME NEW t \in Tasks, InterruptMember(t) PROVE TypeOK'
    <3>1. InitialState \in Merge!States
      BY CountsAssumption DEF InitialState, Merge!States, Values
    <3> QED
      BY <2>6, <3>1, <1>c DEF InterruptMember, Exceptions, Members!Phases, leaderVars,
                              taskVars, sessionVars
  <2> QED
    BY <1>5, <2>1, <2>2, <2>3, <2>4, <2>5, <2>6 DEF ClientStep
<1> QED
  BY <1>1, <1>2, <1>3, <1>4, <1>5, <1>6 DEF Next, MemberStep

----------------------------------------------------------------------------
(* The leader and its registry entry.                                      *)

\* What the leader is and does does not change.
SameLeader == UNCHANGED <<cancelledRuns, leaderVars>>

\* The steps of the members and those of a client that concern one of them.
LEMMA MemberStepsKeepLeader ==
    ASSUME NEW t \in Tasks,
           MemberStep(t) \/ CancelMember(t) \/ InterruptMember(t)
    PROVE  SameLeader /\ UNCHANGED <<taskVars, db, orphans, acked>>
  BY DEF MemberStep, StartMember, MemberEnds, MemberTells, MemberRecorded, CancelMember,
         InterruptMember, SameLeader, sessionVars, historyVars

\* The leader sees only exceptions that members of its delegation have raised.
LEMMA SurfacingRaised ==
    ASSUME TypeOK
    PROVE  \A t \in Surfacing : t \in batch /\ t \in Tasks /\ raised[t] \in Exceptions
  <1>1. Surfacing \subseteq Raised
    <2>1. Surfacing \in {Raised, {}, First(Raised)}
      BY DEF Surfacing
    <2> QED
      BY <2>1 DEF First
  <1>2. \A t \in Raised : t \in batch /\ t \in Tasks /\ raised[t] \in Exceptions
    BY CountsAssumption DEF TypeOK, Raised, Tasks
  <1> QED
    BY <1>1, <1>2

LEMMA NextControl == TypeOK /\ ControlInv /\ [Next]_vars => ControlInv'
<1> SUFFICES ASSUME TypeOK, ControlInv, [Next]_vars PROVE ControlInv'
  OBVIOUS
<1> USE DEF ControlInv, Goto, TryPoints, Leaving, Tracked
<1>s. SameLeader => ControlInv'
  BY DEF SameLeader, leaderVars
<1>c. CASE UNCHANGED vars
  BY <1>c, <1>s DEF vars, SameLeader
<1>1. CASE Begin
  BY <1>1, CancellationTypes DEF Begin, RegisterRun, RegistersOnEntry
<1>2. CASE SetupDone
  BY <1>2, CancellationTypes
  DEF SetupDone, RegisterRun, RegistersOnEntry, RegistersBeforeTry, TypeOK, AllFunctions
<1>3. CASE SetupFails
  BY <1>3 DEF SetupFails
<1>4. CASE Look
  BY <1>4 DEF Look, Cancelled, After
<1>5. CASE ModelAnswers
  BY <1>5 DEF ModelAnswers, Responds, Cancelled
<1>6. CASE Delegate
  BY <1>6 DEF Delegate
<1>7. CASE DelegationDone
  BY <1>7 DEF DelegationDone, Responds, Cancelled
<1>8. CASE DelegationRaises
  <2>1. exit' # "return"
    <3>1. \A t \in Surfacing : raised[t] # "return"
      BY SurfacingRaised DEF Exceptions
    <3> QED
      BY <1>8, <3>1 DEF DelegationRaises
  <2> QED
    BY <1>8, <2>1 DEF DelegationRaises, Cancelled
<1>9. CASE StepFails
  BY <1>9 DEF StepFails
<1>10. ASSUME NEW outcome \in {"completed", "cancelled"}, CleanupAndStore(outcome),
              pc \in {"storing", "cancelling", "cancel_event"}
       PROVE  ControlInv'
  BY <1>10 DEF CleanupAndStore
<1>11. CASE Finally
  BY <1>11, CancellationTypes DEF Finally, Retries
<1>12. CASE Backoff
  BY <1>12 DEF Backoff
<1>13. CASE Call
  BY <1>13 DEF Call
<1>14. CASE CancelRequest
  BY <1>14, CancellationTypes DEF CancelRequest, leaderVars
<1>15. CASE Abandon
  BY <1>15 DEF Abandon, AbandonPoints
<1>16. CASE CancelledWhileDelegating
  BY <1>16 DEF CancelledWhileDelegating, Cancelled
<1>17. ASSUME NEW t \in Tasks,
              MemberStep(t) \/ CancelMember(t) \/ InterruptMember(t)
       PROVE  ControlInv'
  BY <1>17, <1>s, MemberStepsKeepLeader
<1> QED
  BY <1>c, <1>1, <1>2, <1>3, <1>4, <1>5, <1>6, <1>7, <1>8, <1>9, <1>10, <1>11,
     <1>12, <1>13, <1>14, <1>15, <1>16, <1>17
  DEF Next, LeaderStep, ClientStep, Complete, StoreCancelled

LEMMA NextFlag == TypeOK /\ ControlInv /\ FlagInv /\ [Next]_vars => FlagInv'
<1> SUFFICES ASSUME TypeOK, ControlInv, FlagInv, [Next]_vars PROVE FlagInv'
  OBVIOUS
<1> USE DEF FlagInv, Goto, Tracked, IsCancelled
<1>s. SameLeader /\ acked' = acked => FlagInv'
  BY DEF SameLeader, leaderVars
<1>c. CASE UNCHANGED vars
  BY <1>c, <1>s DEF vars, historyVars, SameLeader
\* The flag and its history stay, and there is neither a completed run nor one
\* that is about to be stored.
<1>k. cancelledRuns' = cancelledRuns /\ acked' = acked /\ pc' # "storing" /\ exit' # "return"
        => FlagInv'
  OBVIOUS
<1>n. pc \notin Leaving => exit = "none"
  BY DEF ControlInv
<1>1. CASE Begin
  <2>1. exit' # "return" /\ pc' = "setup"
    BY <1>1, <1>n DEF Begin, Leaving
  <2>2. CASE function \in RegistersOnEntry
    <3>1. acked' # "in time" /\ ~IsCancelled'
      BY <1>1, <2>2, CancellationTypes DEF Begin, RegisterRun
    <3> QED
      BY <2>1, <3>1
  <2>3. CASE function \notin RegistersOnEntry
    BY <1>1, <2>1, <2>3, <1>k DEF Begin
  <2> QED
    BY <2>2, <2>3
<1>2. CASE SetupDone
  <2>1. exit' # "return" /\ pc' = "entry"
    BY <1>2, <1>n DEF SetupDone, Leaving
  <2>2. CASE function \in RegistersBeforeTry
    <3>1. acked' # "in time" /\ ~IsCancelled'
      BY <1>2, <2>2, CancellationTypes DEF SetupDone, RegisterRun
    <3> QED
      BY <2>1, <3>1
  <2>3. CASE function \notin RegistersBeforeTry
    BY <1>2, <2>1, <2>3, <1>k DEF SetupDone
  <2> QED
    BY <2>2, <2>3
<1>3. CASE SetupFails
  BY <1>3, <1>k DEF SetupFails, historyVars
<1>4. CASE Look
  <2>1. exit' # "return" /\ acked' = acked /\ cancelledRuns' = cancelledRuns
    BY <1>4, <1>n DEF Look, After, Leaving, historyVars
  <2>2. CASE pc' # "storing"
    BY <2>1, <2>2
  <2>3. CASE pc' = "storing"
    <3>1. pc = "summary" /\ ~Cancellation!IsCancelled(Leader)
      <4>1. "summary" \in Looks
        BY DEF Looks, After
      <4>2. pc \in DOMAIN After /\ After[pc] = "storing" => pc = "summary"
        <5>1. DOMAIN After = {"entry", "before_model", "after_model", "hooks",
                              "memory", "summary"}
          BY DEF After
        <5>2. /\ After["entry"] # "storing" /\ After["before_model"] # "storing"
              /\ After["after_model"] # "storing" /\ After["hooks"] # "storing"
              /\ After["memory"] # "storing"
          BY DEF After
        <5> QED
          BY <5>1, <5>2
      <4>3. ~Cancelled
        BY <2>3 DEF Cancelled
      <4> QED
        BY <1>4, <2>3, <4>1, <4>2, <4>3 DEF Look
    <3>2. Tracked
      BY <3>1 DEF ControlInv, TryPoints
    <3> QED
      BY <2>1, <3>1, <3>2 DEF Cancellation!IsCancelled
  <2> QED
    BY <2>2, <2>3
<1>5. CASE ModelAnswers
  BY <1>5, <1>k, <1>n DEF ModelAnswers, Responds, Cancelled, Leaving, historyVars
<1>6. CASE Delegate
  BY <1>6, <1>k, <1>n DEF Delegate, Leaving, historyVars
<1>7. CASE DelegationDone
  BY <1>7, <1>k, <1>n DEF DelegationDone, Responds, Cancelled, Leaving
<1>8. CASE DelegationRaises
  <2>1. exit' # "return"
    <3>1. \A t \in Surfacing : raised[t] # "return"
      BY SurfacingRaised DEF Exceptions
    <3> QED
      BY <1>8, <3>1, <1>n DEF DelegationRaises, Leaving
  <2> QED
    BY <1>8, <2>1, <1>k DEF DelegationRaises, Cancelled
<1>9. CASE StepFails
  BY <1>9, <1>k DEF StepFails, historyVars
<1>10. ASSUME NEW outcome \in {"completed", "cancelled"}, CleanupAndStore(outcome),
              outcome = "completed" => pc = "storing"
       PROVE  FlagInv'
  BY <1>10 DEF CleanupAndStore, historyVars
<1>11. CASE Finally
  BY <1>11, CancellationTypes DEF Finally, historyVars
<1>12. CASE Backoff
  BY <1>12, <1>k DEF Backoff, historyVars
<1>13. CASE Call
  BY <1>13, <1>k, <1>n DEF Call, historyVars, Leaving
<1>14. CASE CancelRequest
  <2>1. /\ pc' = pc /\ exit' = exit /\ status' = status
        /\ IsCancelled' <=> Tracked
        /\ acked' = IF ~Tracked THEN acked
                    ELSE IF ~TooLate THEN "in time"
                    ELSE IF acked = "none" THEN "late" ELSE acked
    BY <1>14, CancellationTypes DEF CancelRequest, leaderVars, Cancellation!Tracked
  <2>2. exit = "return" => TooLate
    BY <1>n DEF Leaving, ControlInv, TooLate
  <2>3. IsCancelled' => acked' # "none"
    BY <2>1
  <2>4. pc = "storing" => TooLate
    BY DEF TooLate
  <2>5. Tracked' = Tracked
    BY <1>14, CancellationTypes DEF CancelRequest
  <2> QED
    BY <2>1, <2>2, <2>3, <2>4, <2>5
<1>15. CASE Abandon
  BY <1>15, <1>k DEF Abandon
<1>16. CASE CancelledWhileDelegating
  BY <1>16, <1>k, <1>n DEF CancelledWhileDelegating, Cancelled, Leaving
<1>17. ASSUME NEW t \in Tasks,
              MemberStep(t) \/ CancelMember(t) \/ InterruptMember(t)
       PROVE  FlagInv'
  BY <1>17, <1>s, MemberStepsKeepLeader
<1> QED
  BY <1>c, <1>1, <1>2, <1>3, <1>4, <1>5, <1>6, <1>7, <1>8, <1>9, <1>10, <1>11,
     <1>12, <1>13, <1>14, <1>15, <1>16, <1>17
  DEF Next, LeaderStep, ClientStep, Complete, StoreCancelled

----------------------------------------------------------------------------
(* The tasks, the members' runs, and what is kept of them.                 *)

\* A step that neither begins nor leaves a delegation nor touches a member.
LEMMA LeaderAlone ==
    ASSUME MemberInv, pc # "delegating", pc' # "idle",
           UNCHANGED <<function, streamed, taskVars, memberVars, runs, orphans>>
    PROVE  MemberInv'
  BY DEF MemberInv, TaskInv, HasResponse, taskVars, memberVars

\* Leaving a delegation ends synchronous members and makes the others orphans.
LEMMA LeavingKeepsMembers ==
    ASSUME TypeOK, MemberInv, LeaveDelegation, pc' # "idle",
           UNCHANGED <<function, streamed, asked, runs>>
    PROVE  MemberInv'
<1>1. ASSUME NEW t \in Tasks PROVE TaskInv(t)'
  <2>1. TaskInv(t)
    BY DEF MemberInv
  <2>2. CASE IsAsync
    BY <2>1, <2>2 DEF LeaveDelegation, TaskInv, HasResponse, memberVars, AtWork
  <2>3. CASE ~IsAsync
    <3>1. /\ phase'[t] = IF t \in AtWork /\ phase[t] = "running" THEN "failed" ELSE phase[t]
          /\ delegation'[t] = IF t \in AtWork
                              THEN IF delegation[t] = "told" THEN "cut" ELSE "over"
                              ELSE delegation[t]
          /\ requested' = requested /\ orphans' = orphans
      BY <2>3 DEF LeaveDelegation
    <3>2. t \in AtWork <=> t \in batch /\ delegation[t] \in {"waiting", "running", "told"}
      BY DEF AtWork
    <3> QED
      BY <2>1, <3>1, <3>2 DEF TaskInv, HasResponse
  <2> QED
    BY <2>2, <2>3
<1> QED
  BY <1>1 DEF MemberInv, LeaveDelegation

LEMMA NextMember == TypeOK /\ MemberInv /\ [Next]_vars => MemberInv'
<1> SUFFICES ASSUME TypeOK, MemberInv, [Next]_vars PROVE MemberInv'
  OBVIOUS
<1> USE DEF Goto
<1>c. CASE UNCHANGED vars
  BY <1>c DEF vars, leaderVars, taskVars, memberVars, sessionVars, historyVars,
              MemberInv, TaskInv, HasResponse
<1>1. CASE Begin \/ SetupDone \/ SetupFails \/ StepFails \/ Finally \/ Backoff
  BY <1>1, LeaderAlone
  DEF Begin, SetupDone, SetupFails, StepFails, Finally, Backoff, sessionVars, historyVars
<1>2. CASE Look
  <2>1. pc # "delegating" /\ pc' # "idle"
    BY <1>2 DEF Look, After, Cancelled
  <2> QED
    BY <1>2, <2>1, LeaderAlone DEF Look, sessionVars, historyVars
<1>3. CASE ModelAnswers
  BY <1>3, LeaderAlone DEF ModelAnswers, Responds, Cancelled, sessionVars, historyVars
<1>4. CASE Delegate
  <2>1. PICK n \in Nat : asked' = asked + n /\ asked + n <= TaskCount
    <3>1. (IF toAll THEN {MemberCount} ELSE 1 .. TaskCount) \subseteq Nat
      BY CountsAssumption
    <3> QED
      BY <1>4, <3>1 DEF Delegate
  <2>2. batch = {} /\ pc' = "delegating" /\ batch' = asked + 1 .. asked + n
    BY <1>4, <2>1 DEF Delegate, MemberInv
  <2>3. ASSUME NEW t \in Tasks PROVE TaskInv(t)'
    <3>1. TaskInv(t)
      BY DEF MemberInv
    <3>2. delegation'[t] = IF t \in batch' THEN "waiting" ELSE delegation[t]
      BY <1>4 DEF Delegate, TypeOK
    <3>3. t \in batch' <=> t > asked /\ ~(t > asked')
      BY <2>1, <2>2, CountsAssumption DEF TypeOK, Tasks
    <3>4. t > asked' => t > asked
      BY <2>1, CountsAssumption DEF TypeOK, Tasks
    <3>5. UNCHANGED <<phase, requested, runs, orphans, function, streamed>>
      BY <1>4 DEF Delegate, sessionVars, historyVars
    <3> QED
      BY <2>2, <3>1, <3>2, <3>3, <3>4, <3>5 DEF TaskInv, HasResponse
  <2> QED
    BY <2>2, <2>3 DEF MemberInv
<1>5. CASE DelegationDone
  BY <1>5, LeavingKeepsMembers DEF DelegationDone, Responds, Cancelled, sessionVars
<1>6. CASE DelegationRaises
  BY <1>6, LeavingKeepsMembers DEF DelegationRaises, Cancelled, sessionVars
<1>7. ASSUME NEW outcome, CleanupAndStore(outcome),
             pc \in {"storing", "cancelling", "cancel_event"}
      PROVE  MemberInv'
  BY <1>7, LeaderAlone DEF CleanupAndStore, historyVars
<1>8. CASE Call
  <2>1. asked = 0 /\ pc' = "called" /\ batch = {}
    BY <1>8 DEF Call, MemberInv
  <2>2. runs = {}
    BY <2>1 DEF TypeOK
  <2>3. \A t \in Tasks : TaskInv(t) /\ delegation[t] = "none"
    BY <2>1 DEF MemberInv, TaskInv, Tasks
  <2>4. UNCHANGED <<taskVars, memberVars, sessionVars, orphans>>
    BY <1>8 DEF Call, historyVars
  <2>5. \A t \in Tasks : TaskInv(t)'
    BY <2>1, <2>2, <2>3, <2>4 DEF TaskInv, taskVars, memberVars, sessionVars
  <2> QED
    BY <2>1, <2>4, <2>5 DEF MemberInv, taskVars
<1>9. CASE CancelRequest
  BY <1>9 DEF CancelRequest, MemberInv, TaskInv, HasResponse, leaderVars, taskVars,
              memberVars, sessionVars
<1>10. CASE Abandon
  <2>1. pc' # "idle"
    BY <1>10 DEF Abandon
  <2>2. CASE pc = "delegating"
    BY <1>10, <2>1, <2>2, LeavingKeepsMembers DEF Abandon, sessionVars
  <2>3. CASE pc # "delegating"
    BY <1>10, <2>1, <2>3, LeaderAlone DEF Abandon, sessionVars, taskVars
  <2> QED
    BY <2>2, <2>3
<1>11. CASE CancelledWhileDelegating
  BY <1>11, LeavingKeepsMembers DEF CancelledWhileDelegating, Cancelled, sessionVars
<1>12. ASSUME NEW t \in Tasks, MemberStep(t) \/ CancelMember(t) \/ InterruptMember(t)
       PROVE  MemberInv'
  <2>1. SameLeader /\ UNCHANGED <<taskVars, orphans>>
    BY <1>12, MemberStepsKeepLeader
  <2>2. ASSUME NEW u \in Tasks, u # t PROVE TaskInv(u)'
    <3>1. UNCHANGED <<delegation[u], phase[u], requested[u]>> /\ (u \in runs' <=> u \in runs)
      <4>1. CASE MemberEnds(t) \/ MemberRecorded(t)
        BY <2>2, <4>1, EndsProcess DEF Process, TypeOK
      <4>2. CASE ~(MemberEnds(t) \/ MemberRecorded(t))
        BY <1>12, <2>2, <4>2
        DEF MemberStep, StartMember, MemberTells, CancelMember, InterruptMember,
            Members!Begin, Members!Stop, Members!Request, TypeOK, sessionVars
      <4> QED
        BY <4>1, <4>2
    <3> QED
      BY <2>1, <3>1 DEF SameLeader, leaderVars, taskVars, MemberInv, TaskInv, HasResponse
  <2>3. TaskInv(t)'
    <3> USE <2>1 DEF SameLeader, leaderVars, taskVars, TypeOK, TaskInv, HasResponse
    <3>1. TaskInv(t)
      BY DEF MemberInv
    <3>2. CASE StartMember(t)
      BY <3>1, <3>2 DEF StartMember, MayStart, Members!Begin, sessionVars
    <3>3. CASE MemberEnds(t) \/ MemberRecorded(t)
      <4>1. /\ delegation[t] \in {"running", "told"} /\ requested' = requested
            /\ phase'[t] \in {"paused", "completed", "cancelled", "failed"}
        BY <3>3, EndsProcess
      <4>2. PICK result : Process(t, phase'[t], result)
        BY <3>3, EndsProcess
      <4>3. delegation'[t] = "over"
        BY <4>2 DEF Process
      <4>4. t \in runs' <=> raised'[t] = "none" /\ HasResponse(phase'[t])
        BY <3>1, <4>1, <4>2 DEF Process
      <4>5. phase'[t] = "completed" => raised'[t] = "none"
        BY <4>2 DEF Process, Raises
      <4> QED
        BY <3>1, <4>1, <4>3, <4>4, <4>5
    <3>6. CASE MemberTells(t)
      BY <3>1, <3>6 DEF MemberTells, Members!Stop, sessionVars
    <3>4. CASE CancelMember(t)
      BY <3>1, <3>4 DEF CancelMember, Members!Request, sessionVars
    <3>5. CASE InterruptMember(t)
      BY <3>1, <3>5 DEF InterruptMember, sessionVars
    <3> QED
      BY <1>12, <3>2, <3>3, <3>4, <3>5, <3>6 DEF MemberStep
  <2>4. \A u \in Tasks : TaskInv(u)'
    BY <2>2, <2>3
  <2> QED
    BY <2>1, <2>4 DEF MemberInv, SameLeader, leaderVars, taskVars
<1> QED
  BY <1>c, <1>1, <1>2, <1>3, <1>4, <1>5, <1>6, <1>7, <1>8, <1>9, <1>10, <1>11, <1>12
  DEF Next, LeaderStep, ClientStep, Complete, StoreCancelled

\* Whom the leader leaves at work: nobody, if it is synchronous or all members
\* are over.
LEMMA LeavingOrphans ==
    ASSUME LeaveDelegation, orphans = {}
    PROVE  orphans' # {} => IsAsync /\ ~AllOver
  BY DEF LeaveDelegation, AtWork, AllOver

LEMMA NextOrphan ==
    TypeOK /\ ControlInv /\ FlagInv /\ OrphanInv /\ [Next]_vars => OrphanInv'
<1> SUFFICES ASSUME TypeOK, ControlInv, FlagInv, OrphanInv, [Next]_vars, orphans' # {}
             PROVE  OrphanInv'
  BY DEF OrphanInv
<1> USE DEF OrphanInv, Goto
<1>n. pc \notin Leaving => exit = "none"
  BY DEF ControlInv
<1>c. CASE UNCHANGED vars
  BY <1>c DEF vars, leaderVars, historyVars, IsAsync
<1>1. CASE Begin \/ SetupDone \/ SetupFails \/ Look \/ ModelAnswers \/ Delegate \/ StepFails
           \/ Backoff \/ Complete \/ Call
  <2>1. orphans' = orphans
    BY <1>1 DEF Begin, SetupDone, SetupFails, Look, ModelAnswers, Delegate, StepFails,
                Backoff, Complete, CleanupAndStore, Call, historyVars
  <2>2. pc \in {"called", "setup", "model", "before_model", "hooks", "backoff", "storing",
                "idle"} \cup DOMAIN After
    BY <1>1 DEF Begin, SetupDone, SetupFails, Look, ModelAnswers, Delegate, StepFails,
                Backoff, Complete, Call
  <2> QED
    BY <2>1, <2>2 DEF After
<1>2. CASE StoreCancelled
  BY <1>2, <1>n DEF StoreCancelled, CleanupAndStore, historyVars, Leaving, IsAsync
<1>3. CASE Finally
  BY <1>3 DEF Finally, Retries, Retrying, historyVars, IsAsync, Async
<1>4. CASE DelegationDone
  BY <1>4, LeavingOrphans DEF DelegationDone, AllReported
<1>5. CASE DelegationRaises
  <2>1. orphans = {} /\ exit = "none"
    BY <1>5, <1>n DEF DelegationRaises, Leaving
  <2>2. IsAsync /\ ~AllOver /\ IsAsync' = IsAsync /\ toAll' = toAll
    BY <1>5, <2>1, LeavingOrphans DEF DelegationRaises, IsAsync
  <2>3. toAll
    BY <1>5, <2>2 DEF DelegationRaises, Surfacing
  <2>4. exit' # "return" /\ pc' \in {"cancelling", "cancel_event", "finally"}
    BY <1>5, <2>1, SurfacingRaised DEF DelegationRaises, Cancelled, Exceptions
  <2> QED
    BY <2>2, <2>3, <2>4
<1>6. CASE CancelledWhileDelegating
  <2>1. IsAsync /\ IsAsync' = IsAsync /\ exit' = "none"
    BY <1>6, <1>n, LeavingOrphans DEF CancelledWhileDelegating, IsAsync, Leaving
  <2>2. acked' # "none"
    BY <1>6 DEF CancelledWhileDelegating, FlagInv, IsCancelled, Cancellation!IsCancelled
  <2> QED
    BY <1>6, <2>1, <2>2 DEF CancelledWhileDelegating, Cancelled
<1>7. CASE Abandon
  <2>1. exit' = "abandon" /\ pc' \in {"finally", "ended"} /\ function' = function
    BY <1>7 DEF Abandon
  <2>2. IsAsync
    <3>1. CASE pc = "delegating"
      BY <1>7, <3>1, LeavingOrphans DEF Abandon
    <3>2. CASE pc # "delegating"
      BY <1>7, <3>2 DEF Abandon
    <3> QED
      BY <3>1, <3>2
  <2> QED
    BY <2>1, <2>2 DEF IsAsync
<1>8. CASE CancelRequest
  BY <1>8 DEF CancelRequest, leaderVars, IsAsync
<1>9. ASSUME NEW t \in Tasks, MemberStep(t) \/ CancelMember(t) \/ InterruptMember(t)
      PROVE  OrphanInv'
  BY <1>9, MemberStepsKeepLeader DEF SameLeader, leaderVars, IsAsync
<1> QED
  BY <1>c, <1>1, <1>2, <1>3, <1>4, <1>5, <1>6, <1>7, <1>8, <1>9
  DEF Next, LeaderStep, ClientStep

LEMMA NextStore ==
    TypeOK /\ ControlInv /\ MemberInv /\ StoreInv /\ [Next]_vars => StoreInv'
<1> SUFFICES ASSUME TypeOK, ControlInv, MemberInv, StoreInv, [Next]_vars
             PROVE  StoreInv'
  OBVIOUS
<1> USE DEF StoreInv, Goto
<1>k. pc \notin {"finally", "ended"} /\ db' = db => StoreInv'
  OBVIOUS
<1>c. CASE UNCHANGED vars
  BY <1>c DEF vars, leaderVars, sessionVars, historyVars
<1>1. CASE Begin \/ SetupDone \/ SetupFails \/ Look \/ ModelAnswers \/ Delegate \/ StepFails
           \/ Backoff \/ Call
  <2>1. db' = db
    BY <1>1 DEF Begin, SetupDone, SetupFails, Look, ModelAnswers, Delegate, StepFails,
                Backoff, Call, sessionVars
  <2>2. pc \notin {"finally", "ended"}
    BY <1>1 DEF Begin, SetupDone, SetupFails, Look, After, ModelAnswers, Delegate,
                StepFails, Backoff, Call
  <2> QED
    BY <2>1, <2>2, <1>k
<1>2. CASE DelegationDone \/ DelegationRaises \/ CancelledWhileDelegating \/ Abandon
  <2>1. db' = db
    BY <1>2 DEF DelegationDone, DelegationRaises, CancelledWhileDelegating, Abandon,
                sessionVars
  <2>2. pc \notin {"finally", "ended"}
    BY <1>2 DEF DelegationDone, DelegationRaises, CancelledWhileDelegating, Abandon,
                AbandonPoints
  <2> QED
    BY <2>1, <2>2, <1>k
<1>3. ASSUME NEW outcome, CleanupAndStore(outcome) PROVE StoreInv'
  BY <1>3 DEF CleanupAndStore
<1>4. CASE Finally
  BY <1>4 DEF Finally, Retries, sessionVars, historyVars
<1>5. CASE CancelRequest
  BY <1>5 DEF CancelRequest, leaderVars, sessionVars
<1>6. ASSUME NEW t \in Tasks, MemberStep(t) \/ CancelMember(t) \/ InterruptMember(t)
      PROVE  StoreInv'
  <2>1. SameLeader /\ UNCHANGED <<db, orphans>>
    BY <1>6, MemberStepsKeepLeader
  <2>2. pc \in {"finally", "ended"} => runs' \subseteq runs \cup orphans
    <3>1. CASE MemberEnds(t) \/ MemberRecorded(t)
      <4>1. delegation[t] \in {"running", "told"} /\ runs' \subseteq runs \cup {t}
        BY <3>1, EndsProcess DEF Process
      <4> QED
        BY <4>1 DEF MemberInv, TaskInv
    <3>2. CASE ~(MemberEnds(t) \/ MemberRecorded(t))
      BY <1>6, <3>2
      DEF MemberStep, StartMember, MemberTells, CancelMember, InterruptMember, sessionVars
    <3> QED
      BY <3>1, <3>2
  <2> QED
    BY <2>1, <2>2 DEF SameLeader, leaderVars
<1> QED
  BY <1>c, <1>1, <1>2, <1>3, <1>4, <1>5, <1>6
  DEF Next, LeaderStep, ClientStep, Complete, StoreCancelled

----------------------------------------------------------------------------
(* Why a team is cancelled.                                                *)

\* What was asked for stays asked for, a member whose run begins having no cancel
\* yet that could be forgotten; and who asks does not move the leader.
RequestOnly ==
    /\ Requested => Requested'
    /\ Requested' /\ ~Requested => UNCHANGED <<pc, exit, status>> /\ pc # "idle"

LEMMA NextRequested == TypeOK /\ MemberInv /\ [Next]_vars => RequestOnly
<1> SUFFICES ASSUME TypeOK, MemberInv, [Next]_vars PROVE RequestOnly
  OBVIOUS
<1> USE DEF RequestOnly, Requested
<1>k. (acked # "none" <=> acked' # "none") /\ UNCHANGED <<interrupted, requested>>
        => RequestOnly
  OBVIOUS
<1>r. RegisterRun => (acked # "none" <=> acked' # "none")
  BY DEF RegisterRun
<1>l. LeaveDelegation => requested' = requested
  BY DEF LeaveDelegation, memberVars
<1>c. CASE UNCHANGED vars
  BY <1>c, <1>k DEF vars, memberVars, historyVars
<1>1. CASE Begin
  BY <1>1, <1>k, <1>r DEF Begin, memberVars
<1>2. CASE SetupDone
  BY <1>2, <1>k, <1>r DEF SetupDone, memberVars
<1>3. CASE SetupFails \/ Look \/ ModelAnswers \/ Delegate \/ StepFails \/ Finally \/ Backoff
           \/ Call
  BY <1>3, <1>k
  DEF SetupFails, Look, ModelAnswers, Delegate, StepFails, Finally, Backoff, Call,
      memberVars, historyVars
<1>4. CASE DelegationDone \/ DelegationRaises \/ CancelledWhileDelegating
  BY <1>4, <1>k, <1>l DEF DelegationDone, DelegationRaises, CancelledWhileDelegating
<1>5. ASSUME NEW outcome, CleanupAndStore(outcome) PROVE RequestOnly
  BY <1>5, <1>k DEF CleanupAndStore, memberVars, historyVars
<1>6. CASE CancelRequest
  BY <1>6 DEF CancelRequest, memberVars, leaderVars
<1>7. CASE Abandon
  <2>1. CASE pc = "delegating"
    BY <1>7, <2>1, <1>k, <1>l DEF Abandon
  <2>2. CASE pc # "delegating"
    BY <1>7, <2>2, <1>k DEF Abandon, memberVars
  <2> QED
    BY <2>1, <2>2
<1>8. ASSUME NEW t \in Tasks, StartMember(t) PROVE RequestOnly
  <2>1. ~requested[t]
    BY <1>8 DEF StartMember, MayStart, MemberInv, TaskInv
  <2>2. requested' = [requested EXCEPT ![t] = FALSE] /\ UNCHANGED <<acked, interrupted>>
    BY <1>8 DEF StartMember, Members!Begin, historyVars
  <2>3. \A u \in Tasks : requested'[u] <=> requested[u]
    BY <2>1, <2>2 DEF TypeOK
  <2> QED
    BY <2>2, <2>3
<1>9. ASSUME NEW t \in Tasks, MemberEnds(t) \/ MemberTells(t) \/ MemberRecorded(t)
      PROVE  RequestOnly
  BY <1>9, <1>k DEF MemberEnds, MemberTells, MemberRecorded, Members!Stop, historyVars
<1>10. ASSUME NEW t \in Tasks, CancelMember(t) \/ InterruptMember(t) PROVE RequestOnly
  <2>1. UNCHANGED <<pc, exit, status>>
    BY <1>10, MemberStepsKeepLeader DEF SameLeader, leaderVars
  <2>2. pc # "idle"
    BY <1>10 DEF CancelMember, InterruptMember, MemberInv, TaskInv, TypeOK, Tasks
  <2>3. Requested => Requested'
    BY <1>10 DEF CancelMember, Members!Request, InterruptMember, TypeOK, historyVars
  <2> QED
    BY <2>1, <2>2, <2>3
<1> QED
  BY <1>c, <1>1, <1>2, <1>3, <1>4, <1>5, <1>6, <1>7, <1>8, <1>9, <1>10
  DEF Next, LeaderStep, ClientStep, MemberStep, Complete, StoreCancelled

LEMMA NextRaised == TypeOK /\ MemberInv /\ RaisedInv /\ [Next]_vars => RaisedInv'
<1> SUFFICES ASSUME TypeOK, MemberInv, RaisedInv, [Next]_vars PROVE RaisedInv'
  OBVIOUS
<1> USE DEF RaisedInv
<1>k. UNCHANGED <<delegation, raised, requested, interrupted>> => RaisedInv'
  OBVIOUS
<1>l. LeaveDelegation /\ interrupted' = interrupted => RaisedInv'
  BY DEF LeaveDelegation, memberVars
<1>c. CASE UNCHANGED vars
  BY <1>c, <1>k DEF vars, memberVars, historyVars
<1>1. CASE Begin \/ SetupDone \/ SetupFails \/ Look \/ ModelAnswers \/ StepFails \/ Finally
           \/ Backoff \/ Call \/ CancelRequest
  BY <1>1, <1>k
  DEF Begin, SetupDone, SetupFails, Look, ModelAnswers, StepFails, Finally, Backoff, Call,
      CancelRequest, memberVars, historyVars
<1>2. CASE Delegate
  <2>1. \A t \in Tasks : t \in batch' => delegation[t] = "none"
    <3>1. batch' = asked + 1 .. asked'
      BY <1>2 DEF Delegate
    <3> QED
      BY <3>1 DEF MemberInv, TaskInv, TypeOK, Tasks
  <2>2. UNCHANGED <<raised, requested, interrupted>>
    BY <1>2 DEF Delegate, historyVars
  <2>3. \A t \in Tasks : delegation'[t] = IF t \in batch' THEN "waiting" ELSE delegation[t]
    BY <1>2 DEF Delegate
  <2> QED
    BY <2>1, <2>2, <2>3
<1>3. CASE DelegationDone \/ DelegationRaises \/ CancelledWhileDelegating
  BY <1>3, <1>l DEF DelegationDone, DelegationRaises, CancelledWhileDelegating
<1>4. ASSUME NEW outcome, CleanupAndStore(outcome) PROVE RaisedInv'
  BY <1>4, <1>k DEF CleanupAndStore, memberVars, historyVars
<1>5. CASE Abandon
  <2>1. CASE pc = "delegating"
    BY <1>5, <2>1, <1>l DEF Abandon
  <2>2. CASE pc # "delegating"
    BY <1>5, <2>2, <1>k DEF Abandon, memberVars
  <2> QED
    BY <2>1, <2>2
<1>6. ASSUME NEW t \in Tasks, StartMember(t) PROVE RaisedInv'
  <2>1. raised[t] = "none"
    BY <1>6 DEF StartMember, MayStart
  <2> QED
    BY <1>6, <2>1 DEF StartMember, Members!Begin, TypeOK, historyVars
<1>7. ASSUME NEW t \in Tasks, MemberEnds(t) \/ MemberRecorded(t) PROVE RaisedInv'
  <2>1. PICK result : Process(t, phase'[t], result)
    BY <1>7, EndsProcess
  <2>2. PICK exception \in Raises(phase'[t]) : raised' = [raised EXCEPT ![t] = exception]
    BY <2>1 DEF Process
  <2>3. exception = "cancelled" => requested[t]
    <3>1. exception = "cancelled" => phase'[t] = "cancelled"
      BY <2>2 DEF Raises
    <3> QED
      BY <1>7, <3>1, EndsProcess
  <2>4. UNCHANGED <<requested, interrupted>> /\ delegation' = [delegation EXCEPT ![t] = "over"]
    BY <1>7, <2>1, EndsProcess DEF Process, MemberEnds, MemberRecorded
  <2> QED
    BY <2>2, <2>3, <2>4 DEF TypeOK
<1>10. ASSUME NEW t \in Tasks, MemberTells(t) PROVE RaisedInv'
  BY <1>10 DEF MemberTells, Members!Stop, TypeOK, historyVars
<1>8. ASSUME NEW t \in Tasks, CancelMember(t) PROVE RaisedInv'
  BY <1>8 DEF CancelMember, Members!Request, TypeOK, historyVars
<1>9. ASSUME NEW t \in Tasks, InterruptMember(t) PROVE RaisedInv'
  BY <1>9 DEF InterruptMember, TypeOK
<1> QED
  BY <1>c, <1>1, <1>2, <1>3, <1>4, <1>5, <1>6, <1>7, <1>8, <1>9, <1>10
  DEF Next, LeaderStep, ClientStep, MemberStep, Complete, StoreCancelled

\* Where a look at the flag that finds nothing leads.
LEMMA AfterPoints ==
    \A point \in DOMAIN After :
        After[point] \in {"before_model", "model", "hooks", "memory", "summary", "storing"}
  <1>1. DOMAIN After = {"entry", "before_model", "after_model", "hooks", "memory", "summary"}
    BY DEF After
  <1>2. /\ After["entry"] = "before_model" /\ After["before_model"] = "model"
        /\ After["after_model"] = "hooks" /\ After["hooks"] = "memory"
        /\ After["memory"] = "summary" /\ After["summary"] = "storing"
    BY DEF After
  <1> QED
    BY <1>1, <1>2

\* The leader begins with Call and does not move after its end.
LEMMA LeaderMoves ==
    ASSUME [Next]_vars
    PROVE  /\ pc' = "idle" => pc = "idle"
           /\ pc = "idle" /\ ~Call => pc' = pc
           /\ pc = "ended" => UNCHANGED <<pc, exit, status>>
<1>1. CASE Look
  BY <1>1, AfterPoints DEF Look, After, Cancelled, Goto
<1>2. CASE ~Look
  BY <1>2
  DEF Next, LeaderStep, ClientStep, MemberStep, vars, leaderVars, Goto, Begin, SetupDone,
      SetupFails, Cancelled, ModelAnswers, Responds, Delegate, DelegationDone,
      DelegationRaises, StepFails, Complete, StoreCancelled, CleanupAndStore, Finally,
      Backoff, StartMember, MemberEnds, MemberTells, MemberRecorded, Call, CancelRequest,
      Abandon, AbandonPoints, CancelledWhileDelegating, CancelMember, InterruptMember
<1> QED
  BY <1>1, <1>2

LEMMA NextCause ==
    /\ TypeOK /\ ControlInv /\ FlagInv /\ MemberInv /\ RaisedInv /\ CauseInv /\ [Next]_vars
    => CauseInv'
<1> SUFFICES ASSUME TypeOK, ControlInv, FlagInv, MemberInv, RaisedInv, CauseInv, [Next]_vars
             PROVE  CauseInv'
  OBVIOUS
<1>r. RequestOnly
  BY NextRequested
<1>n. pc \notin Leaving => exit = "none"
  BY DEF ControlInv
<1>1. CASE Requested'
  <2>1. pc' = "idle" => pc = "idle"
    BY LeaderMoves
  <2>2. CASE ~Requested
    BY <1>1, <2>1, <2>2, <1>r DEF CauseInv, RequestOnly
  <2>3. CASE Requested
    <3>1. pc # "idle"
      <4>1. pc = "idle" => \A t \in Tasks : ~requested[t]
        BY DEF MemberInv, TaskInv, TypeOK, Tasks
      <4> QED
        BY <2>3, <4>1 DEF CauseInv, Requested
    <3> QED
      BY <1>1, <2>1, <3>1 DEF CauseInv
  <2> QED
    BY <2>2, <2>3
<1>2. CASE ~Requested'
  <2>1. ~Requested
    BY <1>2, <1>r DEF RequestOnly
  <2>2. acked' = "none" /\ ~interrupted'
    BY <1>2 DEF Requested
  <2>3. ~IsCancelled /\ pc \notin {"cancelling", "cancel_event"}
    BY <2>1 DEF FlagInv, CauseInv, Requested
  <2>4. ~(exit = "return" /\ status = "cancelled")
    BY <2>1 DEF CauseInv
  <2>5. \A t \in Surfacing : raised[t] # "cancelled" /\ raised[t] # "return"
    BY <2>1, SurfacingRaised DEF RaisedInv, Requested, Exceptions
  <2> USE DEF CauseInv, Goto
  <2>6. CASE pc' \in {"cancelling", "cancel_event"} /\ pc' # pc
    <3>1. ~Cancellation!IsCancelled(Leader)
      BY <2>3 DEF IsCancelled, Cancellation!IsCancelled
    <3>2. ~Look
      BY <2>6, <3>1, AfterPoints DEF Look
    <3>3. ~DelegationRaises
      BY <2>5, <2>6 DEF DelegationRaises
    <3> QED
      BY <2>6, <3>1, <3>2, <3>3
      DEF Next, LeaderStep, ClientStep, MemberStep, vars, leaderVars, Begin, SetupDone,
          SetupFails, ModelAnswers, Responds, Delegate, DelegationDone, StepFails,
          Complete, StoreCancelled, CleanupAndStore, Finally, Backoff, StartMember,
          MemberEnds, MemberTells, MemberRecorded, Call, CancelRequest, Abandon,
          CancelledWhileDelegating,
          CancelMember, InterruptMember
  <2>7. CASE exit' = "return" /\ status' = "cancelled"
    <3>1. exit = "return" => pc \in {"finally", "ended"}
      BY <1>n DEF Leaving, ControlInv
    <3> QED
      BY <2>3, <2>4, <2>5, <2>7, <3>1
      DEF Next, LeaderStep, ClientStep, MemberStep, vars, leaderVars, Begin, SetupDone,
          SetupFails, Look, After, Cancelled, ModelAnswers, Responds, Delegate,
          DelegationDone, DelegationRaises, StepFails, Complete, StoreCancelled,
          CleanupAndStore, Finally, Backoff, StartMember, MemberEnds, MemberTells,
          MemberRecorded, Call, CancelRequest, Abandon, AbandonPoints, CancelledWhileDelegating, CancelMember, InterruptMember
  <2> QED
    BY <2>2, <2>3, <2>6, <2>7
<1> QED
  BY <1>1, <1>2

----------------------------------------------------------------------------
(* The theorems.                                                           *)

LEMMA InitInv == Init => IInv
<1> SUFFICES ASSUME Init PROVE IInv
  OBVIOUS
<1>1. TypeOK
  BY InitTypes
<1>2. ~Tracked /\ ~IsCancelled
  BY DEF Init, Cancellation!CancellationInit, Tracked, IsCancelled
<1>3. ControlInv /\ FlagInv /\ OrphanInv /\ StoreInv
  BY <1>2 DEF Init, ControlInv, FlagInv, OrphanInv, StoreInv, TryPoints, Leaving
<1>4. MemberInv
  BY DEF Init, Members!LifecycleInit, MemberInv, TaskInv, Tasks
<1>5. RaisedInv /\ CauseInv
  BY DEF Init, RaisedInv, CauseInv
<1> QED
  BY <1>1, <1>3, <1>4, <1>5 DEF IInv

LEMMA NextInv == IInv /\ [Next]_vars => IInv'
  BY NextTypes, NextControl, NextFlag, NextMember, NextOrphan, NextStore, NextRaised,
     NextCause DEF IInv

\* IInv is an invariant.
LEMMA Invariance == Spec => []IInv
  BY InitInv, NextInv, PTL DEF Spec

\* Every variable keeps its type: the retry loop never goes beyond its bound,
\* and only tasks that were delegated are stored.
THEOREM TypesAreCorrect == Spec => []TypeOK
<1>1. IInv => TypeOK
  BY DEF IInv
<1> QED
  BY <1>1, Invariance, PTL

\* A team run can be cancelled throughout its try statement, and the registry
\* keeps no run but those that were left before it, in all four functions.
THEOREM RegistryIsSafe == Spec => []RegistryFollowsRuns
<1>1. IInv => RegistryFollowsRuns
  BY DEF IInv, ControlInv, RegistryFollowsRuns, Tracked, Cancellation!Tracked
<1> QED
  BY <1>1, Invariance, PTL

\* A cancel that was acknowledged before the last look, and not forgotten by a
\* second registration, is never followed by a completed team run.
THEOREM CancelIsSafe == Spec => []CancelIsHonoured
<1>1. IInv => CancelIsHonoured
  BY DEF IInv, FlagInv, CancelIsHonoured
<1> QED
  BY <1>1, Invariance, PTL

\* Who goes on working when the leader has gone: nobody after a completed run or
\* one of a synchronous function, and for single members only after a cancel or
\* if the run was left.
THEOREM NobodyIsLeft == Spec => []NoMemberIsLeft
<1>1. ASSUME IInv PROVE NoMemberIsLeft
  <2>1. orphans # {} => /\ IsAsync
                        /\ exit = "return" => status # "completed"
                        /\ toAll \/ acked # "none" \/ exit = "abandon"
    BY <1>1 DEF IInv, OrphanInv
  <2>2. \A t \in Tasks : phase[t] = "running" => t \in batch \cup orphans
    BY <1>1 DEF IInv, MemberInv, TaskInv
  <2> QED
    BY <2>1, <2>2 DEF NoMemberIsLeft
<1> QED
  BY <1>1, Invariance, PTL

\* A step of the team is one of RunLifecycle or a stutter.
LEMMA StepImplements ==
    IInv /\ [Next]_vars => [Lifecycle!LifecycleNext]_(Lifecycle!lifecycleVars)
<1> SUFFICES ASSUME IInv, [Next]_vars
             PROVE  [Lifecycle!LifecycleNext]_(Lifecycle!lifecycleVars)
  OBVIOUS
<1>i. IInv'
  BY NextInv
<1>r. RequestOnly
  BY NextRequested DEF IInv
<1>b. Requested \in BOOLEAN /\ Requested' \in BOOLEAN
  BY DEF Requested
<1>m. /\ pc' = "idle" => pc = "idle"
      /\ pc = "idle" /\ ~Call => pc' = pc
      /\ pc = "ended" => UNCHANGED <<pc, exit, status>>
  BY LeaderMoves
<1> DEFINE phases == [r \in {Leader} |-> PhaseOf]
<1> DEFINE asks == [r \in {Leader} |-> Requested]
<1>p. /\ phases[Leader] = PhaseOf /\ asks[Leader] = Requested
      /\ phases' = [phases EXCEPT ![Leader] = PhaseOf']
      /\ asks' = [asks EXCEPT ![Leader] = Requested']
  OBVIOUS
<1>e. (Requested' = Requested => asks' = asks) /\ (PhaseOf' = PhaseOf => phases' = phases)
  OBVIOUS
<1>1. CASE Requested' /\ ~Requested
  <2>1. PhaseOf' = PhaseOf /\ PhaseOf # "new"
    <3>1. UNCHANGED <<pc, exit, status>> /\ pc # "idle"
      BY <1>1, <1>r DEF RequestOnly
    <3>2. exit = "return" => status # "new"
      BY DEF IInv, ControlInv
    <3> QED
      BY <3>1, <3>2 DEF PhaseOf
  <2>2. asks' = [asks EXCEPT ![Leader] = TRUE]
    BY <1>1, <1>b, <1>p
  <2>3. Lifecycle!Request(Leader)
    BY <1>p, <1>e, <2>1, <2>2 DEF Lifecycle!Request
  <2> QED
    BY <2>3 DEF Lifecycle!LifecycleNext
<1>2. CASE Requested' = Requested
  <2>1. CASE Call
    <3>1. ~Requested
      <4>1. pc = "idle" /\ \A t \in Tasks : ~requested[t]
        BY <2>1 DEF Call, IInv, MemberInv, TaskInv, TypeOK, Tasks
      <4> QED
        BY <4>1 DEF IInv, CauseInv, Requested
    <3>2. PhaseOf = "new" /\ PhaseOf' = "running"
      BY <2>1 DEF Call, PhaseOf, Goto
    <3>3. asks' = [asks EXCEPT ![Leader] = FALSE]
      BY <1>2, <1>b, <1>p, <3>1
    <3>4. Lifecycle!Begin(Leader)
      BY <1>p, <3>2, <3>3 DEF Lifecycle!Begin
    <3> QED
      BY <3>4 DEF Lifecycle!LifecycleNext
  <2>2. CASE pc # "ended" /\ pc' = "ended"
    <3>1. PhaseOf = "running"
      <4>1. pc # "idle"
        BY <2>2, <1>m DEF Call, Goto
      <4> QED
        BY <2>2, <4>1 DEF PhaseOf
    <3>2. PhaseOf' \in {"completed", "cancelled", "failed"}
      BY <2>2, <1>i DEF PhaseOf, IInv, ControlInv
    <3>3. PhaseOf' = "cancelled" => Requested
      BY <2>2, <1>2, <1>i DEF PhaseOf, IInv, CauseInv
    <3>4. Lifecycle!Stop(Leader)
      BY <1>2, <1>p, <1>e, <3>1, <3>2, <3>3 DEF Lifecycle!Stop
    <3> QED
      BY <3>4 DEF Lifecycle!LifecycleNext
  <2>3. CASE ~Call /\ ~(pc # "ended" /\ pc' = "ended")
    <3>1. PhaseOf' = PhaseOf
      BY <2>3, <1>m DEF PhaseOf
    <3> QED
      BY <1>2, <1>e, <3>1 DEF Lifecycle!lifecycleVars
  <2> QED
    BY <2>1, <2>2, <2>3
<1> QED
  BY <1>1, <1>2, <1>r, <1>b DEF RequestOnly

\* To its caller a team run is a run of RunLifecycle that does not pause.
THEOREM TeamImplementsLifecycle == Spec => ImplementsLifecycle
<1>1. Init => Lifecycle!LifecycleInit
  BY DEF Init, Lifecycle!LifecycleInit, PhaseOf, Requested, Members!LifecycleInit
<1> QED
  BY <1>1, StepImplements, Invariance, PTL
  DEF Spec, ImplementsLifecycle, Lifecycle!LifecycleSafety

----------------------------------------------------------------------------
(* The order of the tasks.                                                 *)

LEMMA NextOrder == IInv /\ OrderInv /\ [Next]_vars => OrderInv'
<1> SUFFICES ASSUME IInv, OrderInv, [Next]_vars PROVE OrderInv'
  OBVIOUS
<1> USE DEF OrderInv
<1>t. TypeOK /\ MemberInv
  BY DEF IInv
<1>k. UNCHANGED <<asked, batch, delegation, function>> => OrderInv'
  BY DEF IsAsync
<1>l. batch' = {} => OrderInv'
  OBVIOUS
<1>c. CASE UNCHANGED vars
  BY <1>c, <1>k DEF vars, leaderVars, taskVars, memberVars
<1>1. CASE Begin \/ SetupDone \/ SetupFails \/ Look \/ ModelAnswers \/ StepFails \/ Finally
           \/ Backoff \/ CancelRequest
  BY <1>1, <1>k
  DEF Begin, SetupDone, SetupFails, Look, ModelAnswers, StepFails, Finally, Backoff,
      CancelRequest, leaderVars, taskVars, memberVars
<1>2. CASE Delegate
  <2>1. asked' \in Nat /\ asked \in Nat /\ batch' = asked + 1 .. asked'
    BY <1>2, <1>t, CountsAssumption DEF Delegate, TypeOK
  <2>2. \A t \in batch' : t \in Tasks
    BY <1>2, <2>1, CountsAssumption DEF Delegate, Tasks
  <2>3. \A t \in batch' : delegation'[t] = "waiting"
    BY <1>2, <2>2 DEF Delegate
  <2>4. \A t \in Tasks, u \in batch' : t <= asked' /\ t \notin batch' => t < u
    BY <2>1 DEF Tasks
  <2> QED
    BY <2>3, <2>4
<1>3. CASE DelegationDone \/ DelegationRaises \/ CancelledWhileDelegating
  BY <1>3, <1>l DEF DelegationDone, DelegationRaises, CancelledWhileDelegating,
                    LeaveDelegation
<1>4. ASSUME NEW outcome, CleanupAndStore(outcome) PROVE OrderInv'
  BY <1>4, <1>k DEF CleanupAndStore, taskVars, memberVars
<1>5. CASE Abandon
  <2>1. CASE pc = "delegating"
    BY <1>5, <2>1, <1>l DEF Abandon, LeaveDelegation
  <2>2. CASE pc # "delegating"
    BY <1>5, <2>2, <1>k DEF Abandon, memberVars
  <2> QED
    BY <2>1, <2>2
<1>6. CASE Call
  BY <1>6, <1>l, <1>t DEF Call, MemberInv, taskVars
<1>7. ASSUME NEW t \in Tasks, StartMember(t) PROVE OrderInv'
  <2>1. UNCHANGED <<asked, batch, function>> /\ delegation' = [delegation EXCEPT ![t] = "running"]
    BY <1>7 DEF StartMember, leaderVars, taskVars
  <2>2. /\ delegation[t] = "waiting"
        /\ ~IsAsync => \A u \in batch : u < t => delegation[u] = "over"
    BY <1>7 DEF StartMember, MayStart
  <2> QED
    BY <1>t, <2>1, <2>2 DEF TypeOK, IsAsync
<1>8. ASSUME NEW t \in Tasks,
             MemberEnds(t) \/ MemberTells(t) \/ MemberRecorded(t) \/ InterruptMember(t)
      PROVE  OrderInv'
  <2>1. UNCHANGED <<asked, batch, function>> /\ delegation[t] \in {"running", "told"}
    BY <1>8 DEF MemberEnds, MemberTells, MemberRecorded, InterruptMember, leaderVars, taskVars
  <2>2. \E d \in {"told", "over"} : delegation' = [delegation EXCEPT ![t] = d]
    BY <1>8 DEF MemberEnds, MemberTells, MemberRecorded, Process, InterruptMember
  <2> QED
    BY <1>t, <2>1, <2>2 DEF TypeOK, IsAsync
<1>9. ASSUME NEW t \in Tasks, CancelMember(t) PROVE OrderInv'
  BY <1>9, <1>k DEF CancelMember, leaderVars, taskVars
<1> QED
  BY <1>c, <1>1, <1>2, <1>3, <1>4, <1>5, <1>6, <1>7, <1>8, <1>9
  DEF Next, LeaderStep, ClientStep, MemberStep, Complete, StoreCancelled

----------------------------------------------------------------------------
(* The members a team run is stored with.                                  *)

\* The leader leaves one synchronous member at most.
LEMMA LeavingCuts ==
    ASSUME IInv, OrderInv, CutInv, pc = "delegating", LeaveDelegation
    PROVE  /\ \A t, u \in CutOff' : t = u
           /\ CutOff' # {} => function = "_run_stream" /\ ~AllOver
<1>1. CutOff = {}
  BY DEF CutInv
<1>2. \A t \in CutOff' : t \in batch /\ t \in Tasks /\ delegation[t] = "told" /\ ~IsAsync
  <2>1. CASE IsAsync
    BY <1>1, <2>1 DEF LeaveDelegation, memberVars, CutOff
  <2>2. CASE ~IsAsync
    BY <1>1, <2>2 DEF LeaveDelegation, AtWork, CutOff
  <2> QED
    BY <2>1, <2>2
<1>3. \A t, u \in batch : ~IsAsync /\ delegation[t] = "told" /\ delegation[u] = "told"
                             => ~(u < t)
  BY DEF OrderInv
<1>4. \A t, u \in Tasks : ~(u < t) /\ ~(t < u) => t = u
  BY DEF Tasks
<1>5. \A t, u \in CutOff' : t = u
  BY <1>2, <1>3, <1>4
<1>6. \A t \in CutOff' : function = "_run_stream" /\ ~AllOver
  BY <1>2 DEF IInv, MemberInv, TaskInv, AllOver
<1> QED
  BY <1>5, <1>6

LEMMA NextCut == IInv /\ OrderInv /\ CutInv /\ [Next]_vars => CutInv'
<1> SUFFICES ASSUME IInv, OrderInv, CutInv, [Next]_vars PROVE CutInv'
  OBVIOUS
<1> USE DEF Goto
<1>t. TypeOK /\ MemberInv /\ ControlInv
  BY DEF IInv
<1>k. CutOff' = CutOff /\ UNCHANGED <<function, pc, exit, status>> => CutInv'
  BY DEF CutInv
<1>0. CutOff = {} /\ CutOff' = CutOff => CutInv'
  BY DEF CutInv
<1>s. delegation' = delegation => CutOff' = CutOff
  BY DEF CutOff
<1>p. pc \notin {"cancel_event", "finally", "ended"} => CutOff = {}
  BY DEF CutInv
<1>c. CASE UNCHANGED vars
  BY <1>c, <1>k, <1>s DEF vars, leaderVars, memberVars
<1>1. CASE Begin \/ SetupDone \/ SetupFails \/ Look \/ ModelAnswers \/ StepFails \/ Backoff
           \/ Call \/ Complete
  <2>1. delegation' = delegation
    BY <1>1 DEF Begin, SetupDone, SetupFails, Look, ModelAnswers, StepFails, Backoff, Call,
                Complete, CleanupAndStore, memberVars
  <2>2. pc \notin {"cancel_event", "finally", "ended"}
    BY <1>1 DEF Begin, SetupDone, SetupFails, Look, After, ModelAnswers, StepFails, Backoff,
                Call, Complete
  <2> QED
    BY <2>1, <2>2, <1>0, <1>s, <1>p
<1>2. CASE Delegate
  <2>1. CutOff' = CutOff
    <3>1. batch' = asked + 1 .. asked'
      BY <1>2 DEF Delegate
    <3>2. \A t \in Tasks : t \in batch' => delegation[t] = "none"
      BY <1>t, <3>1 DEF MemberInv, TaskInv, TypeOK, Tasks
    <3>3. \A t \in Tasks : delegation'[t] = IF t \in batch' THEN "waiting" ELSE delegation[t]
      BY <1>2 DEF Delegate
    <3> QED
      BY <3>2, <3>3 DEF CutOff
  <2> QED
    BY <1>2, <2>1, <1>0, <1>p DEF Delegate
<1>3. CASE DelegationDone
  <2>1. CutOff' = {}
    BY <1>3, LeavingCuts DEF DelegationDone, AllReported
  <2> QED
    BY <2>1 DEF CutInv
<1>4. CASE DelegationRaises \/ CancelledWhileDelegating \/ (Abandon /\ pc = "delegating")
  <2>1. pc = "delegating" /\ LeaveDelegation /\ function' = function
    BY <1>4 DEF DelegationRaises, CancelledWhileDelegating, Abandon
  <2>2. function = "_run_stream" => pc' \in {"cancel_event", "finally", "ended"}
    BY <1>4 DEF DelegationRaises, CancelledWhileDelegating, Abandon, Cancelled, Streaming
  <2>3. exit' # "return"
    <3>1. exit = "none"
      BY <1>t, <2>1 DEF ControlInv, Leaving
    <3>2. \A t \in Surfacing : raised[t] # "return"
      BY <1>t, SurfacingRaised DEF Exceptions
    <3> QED
      BY <1>4, <3>1, <3>2 DEF DelegationRaises, CancelledWhileDelegating, Abandon
  <2> QED
    BY <2>1, <2>2, <2>3, LeavingCuts DEF CutInv
<1>5. CASE StoreCancelled
  BY <1>5, <1>s DEF StoreCancelled, CleanupAndStore, memberVars, CutInv
<1>6. CASE Finally
  <2>1. delegation' = delegation /\ UNCHANGED <<function, exit, status>>
    BY <1>6 DEF Finally, memberVars
  <2>2. function = "_run_stream" => pc' = "ended"
    BY <1>6 DEF Finally, Retries, Retrying
  <2> QED
    BY <2>1, <2>2, <1>s DEF CutInv
<1>7. CASE Abandon /\ pc # "delegating"
  <2>1. /\ delegation' = delegation /\ function' = function /\ exit' = "abandon"
        /\ pc' \in {"finally", "ended"}
    BY <1>7 DEF Abandon, memberVars
  <2> QED
    BY <2>1, <1>s DEF CutInv
<1>8. CASE CancelRequest
  BY <1>8, <1>k, <1>s DEF CancelRequest, leaderVars, memberVars
<1>9. ASSUME NEW t \in Tasks, MemberStep(t) \/ CancelMember(t) \/ InterruptMember(t)
      PROVE  CutInv'
  <2>1. UNCHANGED <<function, pc, exit, status>>
    BY <1>9, MemberStepsKeepLeader DEF SameLeader, leaderVars
  <2>2. CutOff' = CutOff
    <3>1. CASE CancelMember(t)
      BY <3>1, <1>s DEF CancelMember
    <3>2. CASE ~CancelMember(t)
      <4>1. delegation[t] \in {"waiting", "running", "told"}
        BY <1>9, <3>2 DEF MemberStep, StartMember, MayStart, MemberEnds, MemberTells,
                          MemberRecorded, InterruptMember
      <4>2. \E d \in {"running", "told", "over"} : delegation' = [delegation EXCEPT ![t] = d]
        BY <1>9, <3>2 DEF MemberStep, StartMember, MemberEnds, MemberTells, MemberRecorded,
                          Process, InterruptMember
      <4> QED
        BY <1>t, <4>1, <4>2 DEF TypeOK, CutOff
    <3> QED
      BY <3>1, <3>2
  <2> QED
    BY <2>1, <2>2, <1>k
<1> QED
  BY <1>c, <1>1, <1>2, <1>3, <1>4, <1>5, <1>6, <1>7, <1>8, <1>9
  DEF Next, LeaderStep, ClientStep

\* A stored team run has the responses its members gave, for any number of
\* delegations, attempts, failures and cancels, and it says which one may be
\* missing.
THEOREM MembersAreSafe == Spec => []MembersAreRecorded
<1>1. Init => OrderInv /\ CutInv
  BY DEF Init, OrderInv, CutInv, CutOff
<1>2. IInv /\ OrderInv /\ CutInv /\ [Next]_vars => OrderInv' /\ CutInv'
  BY NextOrder, NextCut
<1>3. ASSUME IInv, CutInv PROVE MembersAreRecorded
  <2> SUFFICES ASSUME db.status # "none"
               PROVE  /\ db.members \subseteq {t \in Tasks : HasResponse(phase[t])}
                      /\ {t \in Tasks : phase[t] = "completed"}
                            \subseteq db.members \cup orphans \cup CutOff
                      /\ CutOff # {} => function = "_run_stream" /\ db.status = "cancelled"
                      /\ \A t, u \in CutOff : t = u
    BY DEF MembersAreRecorded
  <2>1. db.members \subseteq runs /\ runs \subseteq Tasks
    BY <1>3, CountsAssumption DEF IInv, TypeOK, Tasks
  <2>2. \A t \in Tasks : t \in runs => HasResponse(phase[t])
    BY <1>3 DEF IInv, MemberInv, TaskInv
  <2>3. /\ pc \in {"finally", "ended"} /\ exit = "return" /\ db.status = status
        /\ runs \subseteq db.members \cup orphans
    BY <1>3 DEF IInv, StoreInv
  <2>4. batch = {} /\ \A t \in Tasks : TaskInv(t)
    BY <1>3, <2>3 DEF IInv, MemberInv
  <2>5. \A t \in Tasks : phase[t] = "completed" => t \in runs \cup orphans \cup CutOff
    BY <2>4 DEF TaskInv, CutOff
  <2> QED
    BY <1>3, <2>1, <2>2, <2>3, <2>5 DEF CutInv
<1> QED
  BY <1>1, <1>2, <1>3, Invariance, PTL DEF Spec

----------------------------------------------------------------------------
(* The session state.                                                      *)

\* In a synchronous team the member at work is the only one, and no later task
\* has written anything.
LEMMA OneAtATime ==
    ASSUME IInv, OrderInv, WriteInv, ~IsAsync, NEW t \in Tasks,
           delegation[t] \in {"running", "told"}
    PROVE  /\ \A u \in Tasks : delegation[u] \in {"running", "told"} => u = t
           /\ \A u \in Tasks : u > t => written[u] = {}
<1>1. \A u \in Tasks : delegation[u] \in {"running", "told"} => u \in batch
  BY DEF IInv, MemberInv, TaskInv, OrphanInv
<1>2. \A u \in Tasks : u \notin batch => u < t \/ delegation[u] = "none"
  BY <1>1 DEF IInv, MemberInv, TaskInv, OrderInv, TypeOK, Tasks
<1>3. \A u \in batch : u > t => delegation[u] \notin {"running", "told", "over"}
  BY <1>1 DEF OrderInv, Tasks, IInv, TypeOK
<1>4. \A u \in batch : u < t => delegation[u] = "over"
  BY <1>1 DEF OrderInv
<1> QED
  BY <1>1, <1>2, <1>3, <1>4, CountsAssumption DEF WriteInv, Tasks, IInv, TypeOK

\* The end of a member, with its merge.
LEMMA MergeKeepsWrites ==
    ASSUME IInv, OrderInv, WriteInv, StateKeepsWrites, NEW t \in Tasks,
           MemberEnds(t) \/ MemberRecorded(t)
    PROVE  WriteInv' /\ StateKeepsWrites'
<1>t. TypeOK /\ MemberInv
  BY DEF IInv
<1>1. delegation[t] \in {"running", "told"} /\ IsAsync' = IsAsync
  BY <1>t, EndsProcess DEF MemberEnds, MemberRecorded, leaderVars, IsAsync
<1>r. PICK result \in Merge!States :
         /\ Process(t, phase'[t], result)
         /\ \A k \in Keys : result[k] \in {t, copy[t][k]}
  BY <1>t, EndsProcess
<1>d. \A u \in Tasks : delegation'[u] = IF u = t THEN "over" ELSE delegation[u]
  BY <1>r, <1>t DEF Process, TypeOK
<1>y. \A u \in Tasks : copy'[u] = IF u = t THEN InitialState ELSE copy[u]
  BY <1>r, <1>t DEF Process, TypeOK
<1>o. ~IsAsync => /\ \A u \in Tasks : delegation[u] \in {"running", "told"} => u = t
                  /\ \A u \in Tasks : u > t => written[u] = {}
                  /\ \A k \in Keys : result[k] \in {t, state[k]}
  <2>1. ~IsAsync => \A k \in Keys : copy[t][k] \in {t, state[k]}
    BY <1>1 DEF WriteInv
  <2> QED
    BY <1>1, <1>r, <2>1, OneAtATime
<1>2. CASE UNCHANGED <<state, written>>
  <2>1. StateKeepsWrites'
    BY <1>1, <1>2 DEF StateKeepsWrites, Writers
  <2>2. ~IsAsync' => \A u \in Tasks : delegation'[u] \notin {"running", "told"}
    BY <1>1, <1>o, <1>d
  <2>3. \A k \in Keys : Writers(k)' = Writers(k)
    BY <1>2 DEF Writers
  <2>4. \A u \in Tasks : u # t => Unmerged(u)' = Unmerged(u)
    BY <1>d DEF Unmerged
  <2>5. \A u \in Tasks, k \in Keys :
           copy'[u][k] \in {InitialState[k]} \cup Writers(k)' \cup Unmerged(u)'
    BY <1>y, <2>3, <2>4 DEF WriteInv
  <2>6. \A u \in Tasks : delegation'[u] # "over" => written'[u] = {}
    BY <1>2, <1>d DEF WriteInv
  <2>7. \A k \in Keys : state'[k] \in {InitialState[k]} \cup Writers(k)'
    BY <1>2, <2>3 DEF WriteInv
  <2> QED
    BY <2>1, <2>2, <2>5, <2>6, <2>7 DEF WriteInv
<1>3. CASE /\ state' = Merge!MergeDictionaries(state, result)
           /\ written' = [written EXCEPT ![t] = {k \in Keys : result[k] = t}]
  <2> DEFINE W == {k \in Keys : result[k] = t}
  <2>1. \A k \in Keys : k \notin W => result[k] = copy[t][k]
    BY <1>r
  <2>2. \A k \in Keys :
           state'[k] = IF k \in W THEN t
                       ELSE IF copy[t][k] = Absent THEN state[k] ELSE copy[t][k]
    <3>1. t # Absent
      BY AbsentAssumption DEF Tasks
    <3>2. \A k \in Keys : state'[k] = IF result[k] = Absent THEN state[k] ELSE result[k]
      BY <1>3 DEF Merge!MergeDictionaries
    <3> QED
      BY <2>1, <3>1, <3>2
  <2>3. \A u \in Tasks : written'[u] = IF u = t THEN W ELSE written[u]
    BY <1>3, <1>t DEF TypeOK
  <2>4. written[t] = {}
    BY <1>1 DEF WriteInv
  <2>5. \A k \in Keys : Writers(k)' = IF k \in W THEN Writers(k) \cup {t} ELSE Writers(k)
    BY <2>3, <2>4 DEF Writers
  <2>6. \A k \in Keys : k \notin W => copy[t][k] \in {InitialState[k]} \cup Writers(k)
    <3>1. \A k \in Keys : copy[t][k] \in {InitialState[k]} \cup Writers(k) \cup {t}
      BY DEF WriteInv, Unmerged
    <3>2. \A k \in Keys : k \notin W => copy[t][k] # t
      BY <2>1
    <3> QED
      BY <3>1, <3>2
  <2>8. \A k \in Keys : k \notin InitialKeys => InitialState[k] = Absent
    BY DEF InitialState
  <2> HIDE DEF W
  <2>9. WriteInv'
    <3>1. \A u \in Tasks : delegation'[u] # "over" => written'[u] = {}
      BY <2>3, <1>d DEF WriteInv
    <3>2. \A k \in Keys : state'[k] \in {InitialState[k]} \cup Writers(k)'
      BY <2>2, <2>5, <2>6 DEF WriteInv
    <3>3. \A u \in Tasks : u # t => Unmerged(u)' = Unmerged(u)
      BY <1>d DEF Unmerged
    <3>4. \A u \in Tasks, k \in Keys :
             copy'[u][k] \in {InitialState[k]} \cup Writers(k)' \cup Unmerged(u)'
      BY <2>5, <1>y, <3>3 DEF WriteInv
    <3>5. ~IsAsync' => \A u \in Tasks : delegation'[u] \notin {"running", "told"}
      BY <1>1, <1>o, <1>d
    <3> QED
      BY <3>1, <3>2, <3>4, <3>5 DEF WriteInv
  <2>10. ASSUME NEW k \in Keys
         PROVE  /\ Writers(k)' = {} => state'[k] = InitialState[k]
                /\ Writers(k)' # {} /\ k \notin InitialKeys => state'[k] \in Writers(k)'
                /\ Writers(k)' # {} /\ ~IsAsync' =>
                      state'[k] \in Writers(k)' /\ \A u \in Writers(k)' : u <= state'[k]
    <3>1. CASE k \in W
      <4>1. state'[k] = t /\ Writers(k)' = Writers(k) \cup {t}
        BY <2>2, <2>5, <3>1
      <4>2. ~IsAsync => \A u \in Writers(k) : u <= t
        BY <1>o, CountsAssumption DEF Writers, Tasks
      <4>3. t <= t
        BY DEF Tasks
      <4> QED
        BY <1>1, <4>1, <4>2, <4>3
    <3>2. CASE k \notin W
      <4>1. /\ Writers(k)' = Writers(k)
            /\ state'[k] = IF copy[t][k] = Absent THEN state[k] ELSE copy[t][k]
        BY <2>2, <2>5, <3>2
      <4>2. copy[t][k] \in {InitialState[k]} \cup Writers(k)
        BY <2>6, <3>2
      <4>3. ~IsAsync => state'[k] = state[k]
        <5>1. result[k] # t /\ result[k] = copy[t][k]
          BY <2>1, <3>2 DEF W
        <5> QED
          BY <1>o, <4>1, <5>1
      <4> QED
        BY <1>1, <2>8, <4>1, <4>2, <4>3 DEF StateKeepsWrites
    <3> QED
      BY <3>1, <3>2
  <2>11. StateKeepsWrites'
    BY <2>10 DEF StateKeepsWrites
  <2> QED
    BY <2>9, <2>11
<1> QED
  BY <1>2, <1>3, <1>r DEF Process

LEMMA NextWrite ==
    IInv /\ OrderInv /\ WriteInv /\ StateKeepsWrites /\ [Next]_vars
        => WriteInv' /\ StateKeepsWrites'
<1> SUFFICES ASSUME IInv, OrderInv, WriteInv, StateKeepsWrites, [Next]_vars
             PROVE  WriteInv' /\ StateKeepsWrites'
  OBVIOUS
<1>t. TypeOK /\ MemberInv
  BY DEF IInv
<1>s. UNCHANGED <<state, written, function>> => StateKeepsWrites'
  BY DEF StateKeepsWrites, Writers, IsAsync
<1>k. UNCHANGED <<state, written, function, delegation, copy>>
        => WriteInv' /\ StateKeepsWrites'
  BY <1>s DEF WriteInv, Writers, Unmerged, IsAsync
<1>l. LeaveDelegation /\ UNCHANGED <<state, written, function>>
        => WriteInv' /\ StateKeepsWrites'
  <2> SUFFICES ASSUME LeaveDelegation, UNCHANGED <<state, written, function>>
               PROVE  WriteInv'
    BY <1>s
  <2>1. CASE IsAsync
    BY <2>1 DEF LeaveDelegation, WriteInv, Writers, Unmerged, IsAsync, memberVars
  <2>2. CASE ~IsAsync
    <3>1. \A t \in Tasks :
             /\ delegation'[t] = IF t \in AtWork
                                 THEN IF delegation[t] = "told" THEN "cut" ELSE "over"
                                 ELSE delegation[t]
             /\ copy'[t] = IF t \in AtWork THEN InitialState ELSE copy[t]
      BY <2>2 DEF LeaveDelegation
    <3> QED
      BY <3>1 DEF WriteInv, Writers, Unmerged, IsAsync
  <2> QED
    BY <2>1, <2>2
<1>c. CASE UNCHANGED vars
  BY <1>c, <1>k DEF vars, leaderVars, memberVars, sessionVars, historyVars
<1>1. CASE Begin \/ SetupDone \/ SetupFails \/ Look \/ ModelAnswers \/ StepFails \/ Finally
           \/ Backoff \/ CancelRequest
  BY <1>1, <1>k
  DEF Begin, SetupDone, SetupFails, Look, ModelAnswers, StepFails, Finally, Backoff,
      CancelRequest, leaderVars, memberVars, sessionVars, historyVars
<1>2. CASE Delegate
  <2>1. UNCHANGED <<state, written, function, copy>>
    BY <1>2 DEF Delegate, sessionVars, historyVars
  <2>2. \A t \in Tasks : t \in batch' => delegation[t] = "none"
    <3>1. batch' = asked + 1 .. asked'
      BY <1>2 DEF Delegate
    <3> QED
      BY <1>t, <3>1 DEF MemberInv, TaskInv, TypeOK, Tasks
  <2>3. \A t \in Tasks : delegation'[t] = IF t \in batch' THEN "waiting" ELSE delegation[t]
    BY <1>2 DEF Delegate
  <2> QED
    BY <1>s, <2>1, <2>2, <2>3 DEF WriteInv, Writers, Unmerged, IsAsync
<1>3. CASE DelegationDone \/ DelegationRaises \/ CancelledWhileDelegating
  BY <1>3, <1>l DEF DelegationDone, DelegationRaises, CancelledWhileDelegating, sessionVars
<1>4. ASSUME NEW outcome, CleanupAndStore(outcome) PROVE WriteInv' /\ StateKeepsWrites'
  BY <1>4, <1>k DEF CleanupAndStore, memberVars, historyVars
<1>5. CASE Abandon
  <2>1. UNCHANGED <<state, written, function>>
    BY <1>5 DEF Abandon, sessionVars
  <2>2. CASE pc = "delegating"
    BY <1>5, <2>1, <2>2, <1>l DEF Abandon
  <2>3. CASE pc # "delegating"
    BY <1>5, <2>1, <2>3, <1>k DEF Abandon, memberVars
  <2> QED
    BY <2>2, <2>3
<1>6. CASE Call
  <2>1. UNCHANGED <<state, written, delegation, copy>>
    BY <1>6 DEF Call, memberVars, sessionVars, historyVars
  <2>2. \A t \in Tasks : delegation[t] = "none"
    BY <1>6, <1>t DEF Call, MemberInv, TaskInv, Tasks
  <2>3. \A k \in Keys : Writers(k) = {} /\ Writers(k)' = {}
    BY <2>1, <2>2 DEF WriteInv, Writers
  <2> QED
    BY <2>1, <2>2, <2>3 DEF WriteInv, Unmerged, StateKeepsWrites
<1>7. ASSUME NEW t \in Tasks, StartMember(t) PROVE WriteInv' /\ StateKeepsWrites'
  <2>1. /\ UNCHANGED <<state, written, function>> /\ delegation[t] = "waiting"
        /\ delegation' = [delegation EXCEPT ![t] = "running"]
        /\ copy' = [copy EXCEPT ![t] = state]
    BY <1>7 DEF StartMember, MayStart, leaderVars, sessionVars, historyVars
  <2> QED
    BY <1>s, <1>t, <2>1 DEF WriteInv, Writers, Unmerged, IsAsync, TypeOK
<1>8. ASSUME NEW t \in Tasks, MemberEnds(t) \/ MemberRecorded(t)
      PROVE  WriteInv' /\ StateKeepsWrites'
  BY <1>8, MergeKeepsWrites
<1>11. ASSUME NEW t \in Tasks, MemberTells(t) PROVE WriteInv' /\ StateKeepsWrites'
  <2>1. /\ UNCHANGED <<state, written, function>> /\ delegation[t] = "running"
        /\ delegation' = [delegation EXCEPT ![t] = "told"]
    BY <1>11 DEF MemberTells, leaderVars, sessionVars, historyVars
  <2>2. PICK W \in SUBSET Keys : copy' = [copy EXCEPT ![t] = Result(t, W)]
    BY <1>11 DEF MemberTells
  <2>3. \A k \in Keys : copy'[t][k] \in {t, copy[t][k]}
    BY <1>t, <2>2 DEF Result, TypeOK
  <2>4. \A u \in Tasks : u # t => copy'[u] = copy[u] /\ delegation'[u] = delegation[u]
    BY <1>t, <2>1, <2>2 DEF TypeOK
  <2>5. delegation'[t] = "told"
    BY <1>t, <2>1 DEF TypeOK
  <2> QED
    BY <1>s, <2>1, <2>3, <2>4, <2>5 DEF WriteInv, Writers, Unmerged, IsAsync
<1>9. ASSUME NEW t \in Tasks, InterruptMember(t) PROVE WriteInv' /\ StateKeepsWrites'
  <2>1. /\ UNCHANGED <<state, written, function>>
        /\ delegation' = [delegation EXCEPT ![t] = "over"]
        /\ copy' = [copy EXCEPT ![t] = InitialState]
    BY <1>9 DEF InterruptMember, leaderVars, sessionVars
  <2> QED
    BY <1>s, <1>t, <2>1 DEF WriteInv, Writers, Unmerged, IsAsync, TypeOK
<1>10. ASSUME NEW t \in Tasks, CancelMember(t) PROVE WriteInv' /\ StateKeepsWrites'
  BY <1>10, <1>k DEF CancelMember, leaderVars, sessionVars, historyVars
<1> QED
  BY <1>c, <1>1, <1>2, <1>3, <1>4, <1>5, <1>6, <1>7, <1>8, <1>9, <1>10, <1>11
  DEF Next, LeaderStep, ClientStep, MemberStep, Complete, StoreCancelled

\* The merged session state holds what its writers wrote, in the order of the
\* members if these work one after the other, and is unchanged otherwise, for
\* any number of members and keys.
THEOREM StateIsSafe == Spec => []StateKeepsWrites
<1>1. Init => OrderInv /\ WriteInv /\ StateKeepsWrites
  BY DEF Init, OrderInv, WriteInv, StateKeepsWrites, Writers, Unmerged
<1>2. /\ IInv /\ OrderInv /\ WriteInv /\ StateKeepsWrites /\ [Next]_vars
      => OrderInv' /\ WriteInv' /\ StateKeepsWrites'
  BY NextOrder, NextWrite
<1> QED
  BY <1>1, <1>2, Invariance, PTL DEF Spec

=============================================================================
