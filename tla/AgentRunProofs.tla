--------------------------- MODULE AgentRunProofs ---------------------------
(***************************************************************************)
(* Theorems about AgentRun, for every set of run ids, every choice of      *)
(* entry points and every number of retries.                               *)
(*                                                                         *)
(* RunInv is what holds of each run at each point of its function.  It is  *)
(* inductive with TypeOK and implies the registry and cancellation         *)
(* properties.  SerialInv adds, for calls that do not overlap, that they   *)
(* work on a current copy of the session, and what the row says of a run.  *)
(***************************************************************************)
EXTENDS AgentRun, TLAPS

Tracked(r) == cancelledRuns[r] # "untracked"
IsCancelled(r) == cancelledRuns[r] = "cancelled"

\* Where the registry has an entry for the run.
RegistryInv(r) ==
    /\ pc[r] \in TryPoints \cup {"stored"} /\ HasRegistration(function[r])
          => Tracked(r)
    /\ pc[r] = "setup" /\ function[r] \in RegistersOnEntry => Tracked(r)
    /\ pc[r] \in {"idle", "backoff"} => ~Tracked(r)
    /\ pc[r] = "called" /\ function[r] \in RunFunctions => ~Tracked(r)
    /\ pc[r] = "ended" /\ Tracked(r) => exit[r] \in {"setup", "abandon"}

\* The retry loop sleeps only when it has an attempt left.
BackoffInv == \A r \in RunIds : pc[r] = "backoff" => attempt[r] < MaxRetries

\* What the RunOutput says at each point, and how the call has been left.
StatusInv(r) ==
    /\ pc[r] \in {"idle", "backoff"} \cup (TryPoints \ {"cancel_event"})
          => status[r] = "running"
    /\ pc[r] = "cancel_event" => status[r] = "cancelled"
    /\ pc[r] \notin {"stored", "finally", "backoff", "ended"} => exit[r] = "none"
    /\ pc[r] = "backoff" => exit[r] = "provider"
    /\ pc[r] = "stored" => exit[r] = "return"
    /\ pc[r] = "finally" => exit[r] \in {"return", "provider", "error", "abandon"}
    /\ pc[r] = "finally" /\ exit[r] \in {"provider", "error"} => status[r] = "running"
    /\ exit[r] = "return" => status[r] # "running"

\* How the flag of the run and the acknowledgements it gave belong together.
FlagInv(r) ==
    /\ Tracked(r) => (IsCancelled(r) <=> acked[r] # "none")
    /\ pc[r] \notin {"finally", "backoff", "ended"} /\ ~Tracked(r)
          => acked[r] = "none"
    /\ pc[r] \in {"cancelling", "cancel_event"} => acked[r] # "none"

\* Where the run was when a cancel was acknowledged, after its last check.
LateInv(r) ==
    /\ pc[r] = "awaiting" /\ function[r] \in ChecksAfterHooks
          => acked[r] \in {"none", "awaiting"}
    /\ pc[r] \in {"before_hooks", "hooks", "after_hooks", "awaiting"}
          /\ function[r] \notin ChecksAfterHooks
          => acked[r] \in {"none"} \cup TooLate(function[r])
    /\ pc[r] = "pausing" /\ function[r] \in ChecksAfterModel
          => acked[r] \in {"none", "pausing"}
    /\ exit[r] = "return" /\ status[r] = "completed"
          => acked[r] \in {"none"} \cup TooLate(function[r])
    /\ exit[r] = "return" /\ status[r] = "paused"
          => acked[r] \in {"none"} \cup TooLateToPause(function[r])
    /\ exit[r] = "return" /\ status[r] = "cancelled" => acked[r] # "none"

RunInv(r) == RegistryInv(r) /\ StatusInv(r) /\ FlagInv(r) /\ LateInv(r)

IInv == TypeOK /\ \A r \in RunIds : RunInv(r)

Over(r, outcome) ==
    pc[r] \in {"stored", "finally", "ended"} /\ exit[r] = "return"
        /\ status[r] = outcome

SerialInv ==
    /\ \A r, q \in RunIds : InFlight(r) /\ InFlight(q) => r = q
    /\ \A r \in RunIds :
            InFlight(r) /\ ~(pc[r] = "called" /\ function[r] \in Async)
                => session[r] = db
    /\ \A r \in RunIds : exit[r] = "return" => db[r] = status[r]
----------------------------------------------------------------------------
(* Types.                                                                  *)

\* Reading and writing the session keeps db and the copies sessions.
LEMMA SessionTypes ==
    ASSUME Session!SessionTypeOK, NEW r \in RunIds
    PROVE  /\ Session!ReadOrCreateSession(r) => Session!SessionTypeOK'
           /\ \A outcome \in Session!Recorded :
                 Session!CleanupAndStore(r, outcome) => Session!SessionTypeOK'
           /\ UNCHANGED sessionVars => Session!SessionTypeOK'
  BY DEF Session!SessionTypeOK, Session!Sessions, Session!Recorded,
         Session!NewSession, Session!ReadOrCreateSession, Session!CleanupAndStore,
         Session!UpsertRun, Session!SaveSession, sessionVars

\* The registry operations keep the registry a function to flags.
LEMMA CancellationTypes ==
    ASSUME Cancellation!CancellationTypeOK, NEW r \in RunIds
    PROVE  /\ Cancellation!RegisterRun(r) => Cancellation!CancellationTypeOK'
           /\ Cancellation!CancelRun(r) => Cancellation!CancellationTypeOK'
           /\ Cancellation!CleanupRun(r) => Cancellation!CancellationTypeOK'
           /\ UNCHANGED cancelledRuns => Cancellation!CancellationTypeOK'
  BY DEF Cancellation!CancellationTypeOK, Cancellation!Flags,
         Cancellation!RegisterRun, Cancellation!CancelRun,
         Cancellation!CleanupRun, Cancellation!Tracked

\* The initial state is well typed.
LEMMA InitTypes == Init => TypeOK
  BY MaxRetriesAssumption
  DEF Init, TypeOK, Attempts, Points, Statuses, TaskStates, Exits, AllFunctions,
      RunFunctions, Cancellation!CancellationInit, Cancellation!CancellationTypeOK,
      Cancellation!Flags, Session!SessionInit, Session!SessionTypeOK,
      Session!Sessions, Session!NewSession, Session!Recorded

\* Every action keeps the types.
LEMMA NextTypes == TypeOK /\ BackoffInv /\ [Next]_vars => TypeOK'
<1> SUFFICES ASSUME TypeOK, BackoffInv, [Next]_vars PROVE TypeOK'
  OBVIOUS
<1> USE MaxRetriesAssumption, EntryPointsAssumption
<1> USE DEF TypeOK, Attempts, Points, TryPoints, Statuses, TaskStates, Exits,
            AllFunctions, RunFunctions, ContinueFunctions, Goto,
            Session!Recorded
<1>1. CASE UNCHANGED vars
  BY <1>1, SessionTypes, CancellationTypes
  DEF vars, sessionVars, Session!SessionTypeOK, Cancellation!CancellationTypeOK
<1>2. ASSUME NEW r \in RunIds, RunStep(r) PROVE TypeOK'
  <2>s. UNCHANGED <<db, session>> => Session!SessionTypeOK'
    BY SessionTypes DEF sessionVars
  <2>c. UNCHANGED cancelledRuns => Cancellation!CancellationTypeOK'
    BY CancellationTypes
  <2>1. CASE ContinueRejected(r)
    BY <2>1, <2>s, <2>c DEF ContinueRejected
  <2>a. (dropped[r] \/ acked[r] # "none") \in BOOLEAN
    OBVIOUS
  <2>b. ASSUME Register(r) \/ UNCHANGED <<cancelledRuns, acked, dropped>>
        PROVE  /\ Cancellation!CancellationTypeOK'
               /\ acked' \in [RunIds -> Points \cup {"none"}]
               /\ dropped' \in [RunIds -> BOOLEAN]
    <3>1. Cancellation!CancellationTypeOK'
      BY <2>b, CancellationTypes DEF Register
    <3>2. acked' \in [RunIds -> Points \cup {"none"}]
      BY <2>b DEF Register
    <3>3. dropped' \in [RunIds -> BOOLEAN]
      BY <2>a, <2>b, Zenon DEF Register
    <3> QED
      BY <3>1, <3>2, <3>3
  <2>2. CASE BeginAttempt(r)
    <3>1. Session!SessionTypeOK'
      BY <2>2, SessionTypes DEF BeginAttempt
    <3>2. Register(r) \/ UNCHANGED <<cancelledRuns, acked, dropped>>
      BY <2>2 DEF BeginAttempt
    <3> QED
      BY <2>2, <2>b, <3>1, <3>2 DEF BeginAttempt
  <2>3. CASE SetupFails(r)
    BY <2>3, <2>s, <2>c DEF SetupFails
  <2>4. CASE SetupDone(r)
    <3>1. Register(r) \/ UNCHANGED <<cancelledRuns, acked, dropped>>
      BY <2>4 DEF SetupDone
    <3>2. memory' \in [RunIds -> [Attempts -> TaskStates]]
      BY <2>4 DEF SetupDone
    <3> QED
      BY <2>4, <2>s, <2>b, <3>1, <3>2 DEF SetupDone
  <2>5. ASSUME NEW point \in Points, NEW checking, Checkpoint(r, checking, point)
        PROVE  TypeOK'
    BY <2>5, <2>s, <2>c DEF Checkpoint
  <2>6. CASE Entry(r) \/ Prepare(r) \/ BeforeModel(r) \/ ModelResponds(r)
    BY <2>6, <2>5 DEF Entry, Prepare, BeforeModel, ModelResponds
  <2>7. CASE AfterModel(r) \/ BeforeHooks(r) \/ PostHooks(r) \/ AfterHooks(r)
    BY <2>7, <2>5 DEF AfterModel, BeforeHooks, PostHooks, AfterHooks
  <2>8. ASSUME NEW outcome \in {"completed", "paused", "cancelled"},
               Finish(r, outcome)
        PROVE  TypeOK'
    <3>1. Session!SessionTypeOK'
      BY <2>8, SessionTypes DEF Finish
    <3> QED
      BY <2>8, <2>c, <3>1 DEF Finish
  <2>9. CASE Complete(r) \/ Pause(r) \/ StoreCancelled(r)
    BY <2>9, <2>8 DEF Complete, Pause, StoreCancelled
  <2>14. CASE Return(r)
    BY <2>14, <2>s, <2>c DEF Return
  <2>10. CASE YieldCancelledEvent(r)
    BY <2>10, <2>s, <2>c DEF YieldCancelledEvent
  <2>11. CASE StepFails(r)
    BY <2>11, <2>s, <2>c DEF StepFails
  <2>12. CASE Finally(r)
    <3>1. Cancellation!CancellationTypeOK'
      BY <2>12, CancellationTypes DEF Finally
    <3>2. memory' \in [RunIds -> [Attempts -> TaskStates]]
      BY <2>12 DEF Finally
    <3> QED
      BY <2>12, <2>s, <3>1, <3>2 DEF Finally
  <2>13. CASE Backoff(r)
    <3>1. attempt[r] + 1 \in Attempts
      BY <2>13 DEF Backoff, BackoffInv
    <3>2. attempt' \in [RunIds -> Attempts]
      BY <2>13, <3>1 DEF Backoff
    <3>4. dropped' \in [RunIds -> BOOLEAN]
      BY <2>13, <2>a, Zenon DEF Backoff
    <3> QED
      BY <2>13, <2>s, <2>c, <3>2, <3>4 DEF Backoff
  <2> QED
    BY <1>2, <2>1, <2>2, <2>3, <2>4, <2>6, <2>7, <2>9, <2>10, <2>11, <2>12, <2>13,
       <2>14
    DEF RunStep
<1>3. ASSUME NEW r \in RunIds, ClientStep(r) PROVE TypeOK'
  <2>s. UNCHANGED <<db, session>> => Session!SessionTypeOK'
    BY SessionTypes DEF sessionVars
  <2>c. UNCHANGED cancelledRuns => Cancellation!CancellationTypeOK'
    BY CancellationTypes
  <2>1. ASSUME NEW f \in AllFunctions, Call(r, f) PROVE TypeOK'
    <3>1. Session!SessionTypeOK'
      BY <2>1, SessionTypes DEF Call
    <3> QED
      BY <2>1, <2>c, <3>1 DEF Call
  <2>2. CASE Run(r) \/ ContinueRun(r)
    BY <2>2, <2>1 DEF Run, ContinueRun
  <2>3. CASE CancelRequest(r)
    <3>1. Cancellation!CancellationTypeOK'
      BY <2>3, CancellationTypes DEF CancelRequest
    <3> QED
      BY <2>3, <2>s, <3>1 DEF CancelRequest
  <2>h. (held[r] \/ function[r] \in Retrying) \in BOOLEAN
    OBVIOUS
  <2>i. ASSUME AbandonedHeld(r) PROVE held' \in [RunIds -> BOOLEAN]
    BY <2>h, <2>i, Zenon DEF AbandonedHeld
  <2>4. CASE AbandonInTry(r)
    <3>1. StatusToStore(r) \in Statuses
      BY DEF StatusToStore
    <3>2. status' \in [RunIds -> Statuses]
      BY <2>4, <3>1 DEF AbandonInTry, AbandonedStatus
    <3> QED
      BY <2>4, <2>s, <2>c, <2>i, <3>2 DEF AbandonInTry
  <2>5. CASE AbandonSetup(r)
    BY <2>5, <2>s, <2>c, <2>i DEF AbandonSetup, AbandonedStatus
  <2>6. CASE AbandonCall(r)
    BY <2>6, <2>s, <2>c DEF AbandonCall
  <2> QED
    BY <1>3, <2>2, <2>3, <2>4, <2>5, <2>6 DEF ClientStep
<1>4. ASSUME NEW r \in RunIds, NEW a \in Attempts, MemoryTaskEnds(r, a)
      PROVE  TypeOK'
  <2>1. Session!SessionTypeOK' /\ Cancellation!CancellationTypeOK'
    BY <1>4, SessionTypes, CancellationTypes DEF MemoryTaskEnds, sessionVars
  <2> QED
    BY <1>4, <2>1 DEF MemoryTaskEnds
<1> QED
  BY <1>1, <1>2, <1>3, <1>4 DEF Next

\* Only Finally enters the backoff, and only with an attempt left.
LEMMA NextBackoff == TypeOK /\ BackoffInv /\ [Next]_vars => BackoffInv'
<1> SUFFICES ASSUME TypeOK, BackoffInv, [Next]_vars,
                    NEW q \in RunIds, pc'[q] = "backoff"
             PROVE  attempt'[q] < MaxRetries
  BY DEF BackoffInv
<1> USE DEF TypeOK, BackoffInv, Goto
<1>1. CASE UNCHANGED vars
  BY <1>1 DEF vars
<1>2. ASSUME NEW r \in RunIds, RunStep(r) PROVE attempt'[q] < MaxRetries
  <2>1. ASSUME NEW point, point # "backoff", NEW checking,
               Checkpoint(r, checking, point)
        PROVE  attempt'[q] < MaxRetries
    BY <2>1 DEF Checkpoint
  <2>2. CASE \/ Entry(r) \/ Prepare(r) \/ BeforeModel(r) \/ ModelResponds(r)
            \/ AfterModel(r) \/ BeforeHooks(r) \/ PostHooks(r) \/ AfterHooks(r)
    BY <2>2, <2>1 DEF Entry, Prepare, BeforeModel, ModelResponds, AfterModel,
                      BeforeHooks, PostHooks, AfterHooks
  <2>3. CASE Finally(r)
    BY <2>3 DEF Finally, Retries
  <2>4. CASE ContinueRejected(r) \/ BeginAttempt(r) \/ SetupFails(r) \/ SetupDone(r)
    BY <2>4 DEF ContinueRejected, BeginAttempt, SetupFails, SetupDone
  <2>5. CASE Complete(r) \/ Pause(r) \/ StoreCancelled(r)
    BY <2>5 DEF Complete, Pause, StoreCancelled, Finish
  <2>6. CASE YieldCancelledEvent(r) \/ StepFails(r) \/ Return(r) \/ Backoff(r)
    BY <2>6 DEF YieldCancelledEvent, StepFails, Return, Backoff
  <2> QED
    BY <1>2, <2>2, <2>3, <2>4, <2>5, <2>6 DEF RunStep
<1>3. ASSUME NEW r \in RunIds, ClientStep(r) PROVE attempt'[q] < MaxRetries
  BY <1>3 DEF ClientStep, Run, ContinueRun, Call, CancelRequest, AbandonInTry,
              AbandonSetup, AbandonCall
<1>4. ASSUME NEW r \in RunIds, NEW a \in Attempts, MemoryTaskEnds(r, a)
      PROVE  attempt'[q] < MaxRetries
  BY <1>4 DEF MemoryTaskEnds
<1> QED
  BY <1>1, <1>2, <1>3, <1>4 DEF Next

\* The variables keep their types: in particular the retry loop never indexes
\* an attempt beyond Agent.retries.
THEOREM TypesAreCorrect == Spec => []TypeOK
<1>1. Init => TypeOK /\ BackoffInv
  BY InitTypes DEF Init, BackoffInv
<1>2. TypeOK /\ BackoffInv /\ [Next]_vars => TypeOK' /\ BackoffInv'
  BY NextTypes, NextBackoff
<1> QED
  BY <1>1, <1>2, PTL DEF Spec

----------------------------------------------------------------------------
(* The invariant of a run.                                                 *)

SameRun(q) ==
    /\ pc'[q] = pc[q]
    /\ function'[q] = function[q]
    /\ status'[q] = status[q]
    /\ exit'[q] = exit[q]
    /\ acked'[q] = acked[q]
    /\ dropped'[q] = dropped[q]
    /\ cancelledRuns'[q] = cancelledRuns[q]

\* RunInv speaks of a few variables, at one run only.
LEMMA SameRunInv ==
    ASSUME NEW q \in RunIds, RunInv(q), SameRun(q)
    PROVE  RunInv(q)'
  BY DEF SameRun, RunInv, RegistryInv, StatusInv, FlagInv, LateInv, InFlight,
         Tracked, IsCancelled

\* A step of one run leaves the others alone.
LEMMA OtherRuns ==
    ASSUME TypeOK, NEW r \in RunIds, NEW q \in RunIds, q # r,
           RunStep(r) \/ ClientStep(r)
    PROVE  SameRun(q)
<1> USE DEF TypeOK, Goto, SameRun, Cancellation!CancellationTypeOK
<1>1. ASSUME NEW point, NEW checking, Checkpoint(r, checking, point)
      PROVE  SameRun(q)
  BY <1>1 DEF Checkpoint
<1>2. CASE \/ Entry(r) \/ Prepare(r) \/ BeforeModel(r) \/ ModelResponds(r)
          \/ AfterModel(r) \/ BeforeHooks(r) \/ PostHooks(r) \/ AfterHooks(r)
  BY <1>2, <1>1 DEF Entry, Prepare, BeforeModel, ModelResponds, AfterModel,
                    BeforeHooks, PostHooks, AfterHooks
<1>3. CASE ContinueRejected(r) \/ BeginAttempt(r) \/ SetupFails(r) \/ SetupDone(r)
  BY <1>3 DEF ContinueRejected, BeginAttempt, SetupFails, SetupDone, Register,
              Cancellation!RegisterRun
<1>4. CASE Complete(r) \/ Pause(r) \/ StoreCancelled(r)
  BY <1>4 DEF Complete, Pause, StoreCancelled, Finish
<1>5. CASE \/ YieldCancelledEvent(r) \/ StepFails(r) \/ Return(r)
          \/ Finally(r) \/ Backoff(r)
  BY <1>5 DEF YieldCancelledEvent, StepFails, Return, Finally, Backoff,
              Cancellation!CleanupRun
<1>6. CASE Run(r) \/ ContinueRun(r)
  BY <1>6 DEF Run, ContinueRun, Call
<1>7. CASE CancelRequest(r)
  BY <1>7 DEF CancelRequest, Cancellation!CancelRun
<1>8. CASE AbandonInTry(r) \/ AbandonSetup(r) \/ AbandonCall(r)
  BY <1>8 DEF AbandonInTry, AbandonSetup, AbandonCall, AbandonedStatus
<1> QED
  BY <1>2, <1>3, <1>4, <1>5, <1>6, <1>7, <1>8 DEF RunStep, ClientStep

\* The tables of the entry points, as the proofs below need them.
LEMMA Tables ==
    /\ RegistersOnEntry \cap RegistersBeforeTry = {}
    /\ \A f \in AllFunctions :
          ~HasRegistration(f) <=> f = "_continue_run_stream"
    /\ \A f \in AllFunctions :
          f \in ChecksAfterModel <=> f # "_continue_run_stream"
    /\ \A f \in AllFunctions :
          f \notin ChecksAfterHooks
             => /\ f \in RunFunctions
                /\ TooLate(f) = {"stored", "finally", "ended", "before_hooks",
                                 "hooks", "after_hooks", "awaiting"}
    /\ \A f \in ChecksAfterHooks :
          TooLate(f) = {"stored", "finally", "ended", "awaiting"}
    /\ \A f \in ChecksAfterModel :
          TooLateToPause(f) = {"pausing", "stored", "finally", "ended"}
    /\ \A f \in AllFunctions \ ChecksAfterModel : TooLateToPause(f) = Points
  BY DEF RegistersOnEntry, RegistersBeforeTry, HasRegistration, AllFunctions,
         RunFunctions, ContinueFunctions, ChecksAfterModel, ChecksAfterHooks, TooLate,
         TooLateToPause

\* The statements of the try: each goes on, or to the handler with the flag set.
LEMMA CheckpointInv ==
    ASSUME TypeOK, NEW r \in RunIds, RunInv(r),
           \/ Entry(r) \/ Prepare(r) \/ BeforeModel(r) \/ ModelResponds(r)
           \/ AfterModel(r) \/ BeforeHooks(r) \/ PostHooks(r) \/ AfterHooks(r)
    PROVE  RunInv(r)'
<1> USE DEF TypeOK, Goto, Checkpoint, RunInv, RegistryInv, StatusInv, FlagInv,
            LateInv, InFlight, Tracked, IsCancelled, TryPoints,
            Cancellation!IsCancelled
<1>1. CASE Entry(r) \/ Prepare(r) \/ BeforeModel(r) \/ ModelResponds(r)
  BY <1>1 DEF Entry, Prepare, BeforeModel, ModelResponds
<1>2. CASE AfterModel(r)
  <2>1. function[r] \in AllFunctions
    OBVIOUS
  <2>2. CASE function[r] = "_continue_run_stream"
    <3>1. /\ function[r] \notin ChecksAfterModel
          /\ function[r] \in ChecksAfterHooks
      BY <2>1, <2>2, Tables DEF RunFunctions
    <3> QED
      BY <1>2, <3>1 DEF AfterModel
  <2>3. CASE function[r] # "_continue_run_stream"
    <3>1. Tracked(r) /\ function[r] \in ChecksAfterModel
      BY <1>2, <2>1, <2>3, Tables DEF AfterModel
    <3>2. ~IsCancelled(r) => acked[r] = "none"
      BY <3>1
    <3> QED
      BY <1>2, <3>1, <3>2 DEF AfterModel
  <2> QED
    BY <2>2, <2>3
<1>3. CASE BeforeHooks(r) \/ PostHooks(r)
  BY <1>3, Tables DEF BeforeHooks, PostHooks
<1>4. CASE AfterHooks(r)
  BY <1>4, Tables DEF AfterHooks
<1> QED
  BY <1>1, <1>2, <1>3, <1>4

\* From the call to the try statement.
LEMMA SetupInv ==
    ASSUME TypeOK, NEW r \in RunIds, RunInv(r),
           ContinueRejected(r) \/ BeginAttempt(r) \/ SetupFails(r) \/ SetupDone(r)
    PROVE  RunInv(r)'
<1> USE DEF TypeOK, Goto, RunInv, RegistryInv, StatusInv, FlagInv, LateInv,
            InFlight, Tracked, IsCancelled, TryPoints,
            Cancellation!CancellationTypeOK, Cancellation!RegisterRun, Register
<1>1. CASE ContinueRejected(r)
  BY <1>1 DEF ContinueRejected
<1>2. CASE BeginAttempt(r)
  BY <1>2 DEF BeginAttempt
<1>3. CASE SetupFails(r)
  BY <1>3 DEF SetupFails
<1>4. CASE SetupDone(r)
  BY <1>4, Tables DEF SetupDone, HasRegistration
<1> QED
  BY <1>1, <1>2, <1>3, <1>4

\* The ways out of the try statement that set a status.
LEMMA FinishInv ==
    ASSUME TypeOK, NEW r \in RunIds, RunInv(r),
           \/ Complete(r) \/ Pause(r) \/ YieldCancelledEvent(r)
           \/ StoreCancelled(r) \/ Return(r)
    PROVE  RunInv(r)'
<1> USE DEF TypeOK, Goto, RunInv, RegistryInv, StatusInv, FlagInv, LateInv,
            InFlight, Tracked, IsCancelled, TryPoints
<1>1. CASE Complete(r)
  BY <1>1, Tables DEF Complete, Finish
<1>2. CASE Pause(r)
  BY <1>2, Tables DEF Pause, Finish
<1>3. CASE YieldCancelledEvent(r)
  BY <1>3 DEF YieldCancelledEvent
<1>4. CASE StoreCancelled(r)
  BY <1>4 DEF StoreCancelled, Finish
<1>5. CASE Return(r)
  BY <1>5 DEF Return
<1> QED
  BY <1>1, <1>2, <1>3, <1>4, <1>5

\* Errors, the finally statement and the retry loop.
LEMMA LeaveInv ==
    ASSUME TypeOK, NEW r \in RunIds, RunInv(r),
           StepFails(r) \/ Finally(r) \/ Backoff(r)
    PROVE  RunInv(r)'
<1> USE DEF TypeOK, Goto, RunInv, RegistryInv, StatusInv, FlagInv, LateInv,
            InFlight, Tracked, IsCancelled, TryPoints
<1>1. CASE StepFails(r)
  BY <1>1 DEF StepFails
<1>2. CASE Finally(r)
  BY <1>2 DEF Finally, Retries, Cancellation!CleanupRun,
              Cancellation!CancellationTypeOK
<1>3. CASE Backoff(r)
  BY <1>3, Tables DEF Backoff, Retrying
<1> QED
  BY <1>1, <1>2, <1>3

\* What the clients do.
LEMMA ClientInv ==
    ASSUME TypeOK, NEW r \in RunIds, RunInv(r), ClientStep(r)
    PROVE  RunInv(r)'
<1> USE DEF TypeOK, Goto, RunInv, RegistryInv, StatusInv, FlagInv, LateInv,
            InFlight, Tracked, IsCancelled, TryPoints, Cancellation!IsCancelled
<1>1. CASE Run(r)
  BY <1>1 DEF Run, Call
<1>2. CASE ContinueRun(r)
  <2>1. RunFunctions \cap ContinueFunctions = {}
    BY DEF RunFunctions, ContinueFunctions
  <2> QED
    BY <1>2, <2>1 DEF ContinueRun, Call
<1>3. CASE CancelRequest(r)
  BY <1>3, Tables DEF CancelRequest, Cancellation!CancelRun, Cancellation!Tracked,
     Cancellation!CancellationTypeOK, Points
<1>4. CASE AbandonInTry(r)
  BY <1>4 DEF AbandonInTry, AbandonedStatus, AbandonPoints
<1>5. CASE AbandonSetup(r)
  BY <1>5 DEF AbandonSetup, AbandonedStatus
<1>6. CASE AbandonCall(r)
  BY <1>6 DEF AbandonCall
<1> QED
  BY <1>1, <1>2, <1>3, <1>4, <1>5, <1>6 DEF ClientStep

\* A memory task that ends touches no run.
LEMMA TaskInv ==
    ASSUME NEW r \in RunIds, NEW a \in Attempts, MemoryTaskEnds(r, a),
           NEW q \in RunIds
    PROVE  SameRun(q)
  BY DEF MemoryTaskEnds, SameRun

LEMMA InitIInv == Init => IInv /\ BackoffInv
<1> SUFFICES ASSUME Init PROVE IInv /\ BackoffInv
  OBVIOUS
<1>1. ASSUME NEW r \in RunIds PROVE RunInv(r)
  BY DEF Init, RunInv, RegistryInv, StatusInv, FlagInv, LateInv, InFlight, Tracked,
         IsCancelled, TryPoints, Cancellation!CancellationInit
<1> QED
  BY <1>1, InitTypes DEF IInv, Init, BackoffInv

LEMMA NextIInv == IInv /\ BackoffInv /\ [Next]_vars => IInv' /\ BackoffInv'
<1> SUFFICES ASSUME IInv, BackoffInv, [Next]_vars PROVE IInv' /\ BackoffInv'
  OBVIOUS
<1>1. TypeOK' /\ BackoffInv'
  BY NextTypes, NextBackoff DEF IInv
<1>2. ASSUME NEW q \in RunIds PROVE RunInv(q)'
  <2>1. TypeOK /\ RunInv(q)
    BY DEF IInv
  <2>2. CASE SameRun(q)
    BY <2>1, <2>2, SameRunInv
  <2>3. CASE UNCHANGED vars
    BY <2>3, <2>2 DEF vars, SameRun
  <2>4. ASSUME NEW r \in RunIds, RunStep(r) \/ ClientStep(r) PROVE RunInv(q)'
    <3>1. CASE q # r
      BY <2>1, <2>4, <3>1, OtherRuns, <2>2
    <3>2. CASE q = r /\ RunStep(r)
      BY <2>1, <3>2, SetupInv, CheckpointInv, FinishInv, LeaveInv DEF RunStep
    <3>3. CASE q = r /\ ClientStep(r)
      BY <2>1, <3>3, ClientInv
    <3> QED
      BY <2>4, <3>1, <3>2, <3>3
  <2>5. ASSUME NEW r \in RunIds, NEW a \in Attempts, MemoryTaskEnds(r, a)
        PROVE  RunInv(q)'
    BY <2>5, TaskInv, <2>2
  <2> QED
    BY <2>3, <2>4, <2>5 DEF Next
<1> QED
  BY <1>1, <1>2 DEF IInv

LEMMA IInvAlways == Spec => []IInv
<1> QED
  BY InitIInv, NextIInv, PTL DEF Spec

\* The registry follows the runs: nothing that can still be cancelled is missing
\* from it, and a call that reached its finally leaves nothing in it.
THEOREM RegistryIsSafe == Spec => []RegistryFollowsRuns
<1>1. IInv => RegistryFollowsRuns
  BY DEF IInv, RunInv, RegistryInv, RegistryFollowsRuns, Tracked,
         Cancellation!Tracked, TypeOK, AllFunctions
<1> QED
  BY <1>1, IInvAlways, PTL

\* A cancel that a check could still see is never followed by a normal return of
\* the attempt that acknowledged it, whatever calls continue the run.
THEOREM CancelIsSafe == Spec => []CancelIsHonoured
<1>1. IInv => CancelIsHonoured
  BY DEF IInv, RunInv, LateInv, CancelIsHonoured
<1> QED
  BY <1>1, IInvAlways, PTL

\* No run is reported cancelled on behalf of another one.
THEOREM CancelIsOwn == Spec => []NoSpuriousCancel
<1>1. IInv => NoSpuriousCancel
  BY DEF IInv, RunInv, LateInv, NoSpuriousCancel
<1> QED
  BY <1>1, IInvAlways, PTL

----------------------------------------------------------------------------
(* The stored session.                                                     *)

\* The actions that leave the store and the copies alone.
LEMMA StoreUntouched ==
    ASSUME NEW r \in RunIds,
           \/ ContinueRejected(r) \/ SetupFails(r) \/ SetupDone(r)
           \/ Entry(r) \/ Prepare(r) \/ BeforeModel(r) \/ ModelResponds(r)
           \/ AfterModel(r) \/ BeforeHooks(r) \/ PostHooks(r) \/ AfterHooks(r)
           \/ YieldCancelledEvent(r) \/ StepFails(r) \/ Return(r)
           \/ Finally(r) \/ Backoff(r) \/ CancelRequest(r) \/ AbandonInTry(r) \/ AbandonSetup(r)
           \/ AbandonCall(r) \/ \E a \in Attempts : MemoryTaskEnds(r, a)
    PROVE  UNCHANGED <<db, session>>
  BY DEF ContinueRejected, SetupFails, SetupDone, Checkpoint, Entry, Prepare,
         BeforeModel, ModelResponds, AfterModel, BeforeHooks, PostHooks, AfterHooks,
         YieldCancelledEvent, StepFails, Return, Finally, Backoff, CancelRequest,
         AbandonInTry, AbandonSetup, AbandonCall, MemoryTaskEnds

\* What a step may do to the store: read it into a copy, or record an outcome.
LEMMA StoreSteps ==
    ASSUME [Next]_vars
    PROVE  \/ UNCHANGED <<db, session>>
           \/ \E r \in RunIds :
                 /\ Session!ReadOrCreateSession(r)
                 /\ BeginAttempt(r) \/ Run(r) \/ ContinueRun(r)
           \/ \E r \in RunIds, outcome \in {"paused", "completed", "cancelled"} :
                 /\ Session!CleanupAndStore(r, outcome)
                 /\ Finish(r, outcome)
                 /\ pc[r] \in TryPoints
<1>1. CASE UNCHANGED vars
  BY <1>1 DEF vars
<1>2. ASSUME NEW r \in RunIds, BeginAttempt(r) \/ Run(r) \/ ContinueRun(r)
      PROVE  Session!ReadOrCreateSession(r) \/ UNCHANGED <<db, session>>
  BY <1>2 DEF BeginAttempt, Run, ContinueRun, Call, sessionVars
<1>3. ASSUME NEW r \in RunIds, Complete(r) \/ Pause(r) \/ StoreCancelled(r)
      PROVE  \E outcome \in {"paused", "completed", "cancelled"} :
                 /\ Session!CleanupAndStore(r, outcome)
                 /\ Finish(r, outcome)
                 /\ pc[r] \in TryPoints
  BY <1>3 DEF Complete, Pause, StoreCancelled, Finish, TryPoints
<1>4. ASSUME NEW r \in RunIds, RunStep(r) \/ ClientStep(r)
      PROVE  \/ UNCHANGED <<db, session>>
             \/ BeginAttempt(r) \/ Run(r) \/ ContinueRun(r)
             \/ Complete(r) \/ Pause(r) \/ StoreCancelled(r)
  BY <1>4, StoreUntouched DEF RunStep, ClientStep
<1> QED
  BY <1>1, <1>2, <1>3, <1>4, StoreUntouched DEF Next

\* A call that has returned has just stored its outcome, or had before.
LEMMA ReturnSteps ==
    ASSUME IInv, [Next]_vars, NEW p \in RunIds, exit'[p] = "return"
    PROVE  \/ exit[p] = "return" /\ status'[p] = status[p]
           \/ \E outcome \in {"paused", "completed", "cancelled"} : Finish(p, outcome)
<1> TypeOK
  BY DEF IInv
<1> DEFINE Goal ==
      \/ exit[p] = "return" /\ status'[p] = status[p]
      \/ \E outcome \in {"paused", "completed", "cancelled"} : Finish(p, outcome)
<1>1. CASE UNCHANGED vars
  BY <1>1 DEF vars
<1>2. CASE SameRun(p)
  BY <1>2 DEF SameRun
<1>3. ASSUME RunStep(p) PROVE Goal
  <2> USE DEF TypeOK, Goto
  <2>1. CASE Complete(p) \/ Pause(p) \/ StoreCancelled(p)
    BY <2>1 DEF Complete, Pause, StoreCancelled
  <2>2. CASE Return(p) \/ Finally(p)
    BY <2>2 DEF Return, Finally
  <2>3. CASE ContinueRejected(p) \/ BeginAttempt(p) \/ SetupFails(p) \/ SetupDone(p)
    BY <2>3 DEF ContinueRejected, BeginAttempt, SetupFails, SetupDone, IInv, RunInv,
                StatusInv
  <2>4. CASE \/ Entry(p) \/ Prepare(p) \/ BeforeModel(p) \/ ModelResponds(p)
            \/ AfterModel(p) \/ BeforeHooks(p) \/ PostHooks(p) \/ AfterHooks(p)
    BY <2>4 DEF Entry, Prepare, BeforeModel, ModelResponds, AfterModel, BeforeHooks,
                PostHooks, AfterHooks, Checkpoint
  <2>5. CASE YieldCancelledEvent(p) \/ StepFails(p) \/ Backoff(p)
    BY <2>5 DEF YieldCancelledEvent, StepFails, Backoff, IInv, RunInv, StatusInv
  <2> QED
    BY <1>3, <2>1, <2>2, <2>3, <2>4, <2>5 DEF RunStep
<1>4. ASSUME ClientStep(p) PROVE Goal
  <2> USE DEF TypeOK
  <2>1. CASE Run(p) \/ ContinueRun(p)
    BY <2>1 DEF Run, ContinueRun, Call
  <2>2. CASE CancelRequest(p)
    BY <2>2 DEF CancelRequest
  <2>3. CASE AbandonInTry(p) \/ AbandonSetup(p) \/ AbandonCall(p)
    BY <2>3 DEF AbandonInTry, AbandonSetup, AbandonCall
  <2> QED
    BY <1>4, <2>1, <2>2, <2>3 DEF ClientStep
<1> QED
  BY <1>1, <1>2, <1>3, <1>4, OtherRuns, TaskInv DEF Next

\* Storing an outcome puts nothing but this outcome, and what the copy already
\* said of other runs, into the copy and the store.
LEMMA StoreWrites ==
    ASSUME TypeOK, NEW r \in RunIds, NEW outcome, Session!CleanupAndStore(r, outcome)
    PROVE  /\ \A q, p \in RunIds : session'[q][p] =
                 IF q = r /\ p = r THEN outcome ELSE session[q][p]
           /\ db' = db \/ db' = session'[r]
  BY DEF TypeOK, Session!SessionTypeOK, Session!Sessions, Session!CleanupAndStore,
         Session!UpsertRun, Session!SaveSession

----------------------------------------------------------------------------
(* Calls that do not overlap.                                              *)

\* The run works on a copy that it has read.
HasCopy(r) == InFlight(r) /\ ~(pc[r] = "called" /\ function[r] \in Async)

\* A run comes to have a copy by reading it, or had one before the step.
LEMMA CopySteps ==
    ASSUME IInv, [Next]_vars, NEW q \in RunIds
    PROVE  /\ InFlight(q)' => InFlight(q) \/ (MayStart /\ (Run(q) \/ ContinueRun(q)))
           /\ HasCopy(q)' => HasCopy(q) \/ Session!ReadOrCreateSession(q)
<1> TypeOK
  BY DEF IInv
<1> DEFINE Goal == /\ InFlight(q)' => InFlight(q) \/ (MayStart /\ (Run(q) \/ ContinueRun(q)))
                   /\ HasCopy(q)' => HasCopy(q) \/ Session!ReadOrCreateSession(q)
<1>1. CASE UNCHANGED vars
  BY <1>1 DEF vars, InFlight, HasCopy
<1>2. CASE SameRun(q)
  BY <1>2 DEF SameRun, InFlight, HasCopy
<1>3. ASSUME RunStep(q) PROVE Goal
  <2> USE DEF TypeOK, Goto, InFlight, HasCopy
  <2>1. CASE BeginAttempt(q)
    BY <2>1 DEF BeginAttempt, ReadsSessionAtCall
  <2>2. CASE Backoff(q)
    BY <2>2 DEF Backoff
  <2>3. CASE RunStep(q) /\ ~BeginAttempt(q) /\ ~Backoff(q)
    BY <2>3 DEF RunStep, ContinueRejected, SetupFails, SetupDone, Entry, Prepare,
       BeforeModel, ModelResponds, AfterModel, BeforeHooks, PostHooks, AfterHooks,
       Checkpoint, Complete, Pause, YieldCancelledEvent, StoreCancelled, Finish,
       Return, StepFails, Finally
  <2> QED
    BY <1>3, <2>1, <2>2, <2>3
<1>4. ASSUME ClientStep(q) PROVE Goal
  <2> USE DEF TypeOK, Goto, InFlight, HasCopy
  <2>1. CASE Run(q) \/ ContinueRun(q)
    BY <2>1 DEF Run, ContinueRun, Call, ReadsSessionAtCall
  <2>2. CASE CancelRequest(q)
    BY <2>2 DEF CancelRequest
  <2>3. CASE AbandonInTry(q) \/ AbandonSetup(q) \/ AbandonCall(q)
    BY <2>3 DEF AbandonInTry, AbandonSetup, AbandonCall, AbandonPoints
  <2> QED
    BY <1>4, <2>1, <2>2, <2>3 DEF ClientStep
<1> QED
  BY <1>1, <1>2, <1>3, <1>4, OtherRuns, TaskInv DEF Next

\* With one call at a time and a database that never fails, the copy a run works
\* on is the stored session, and a step changes no entry but that of its run.
LEMMA SerialWrites ==
    ASSUME ~DbMayFail, IInv, SerialInv, [Next]_vars, NEW p \in RunIds,
           db'[p] # db[p]
    PROVE  \E outcome \in {"paused", "completed", "cancelled"} :
              /\ Finish(p, outcome)
              /\ pc[p] \in TryPoints
              /\ db'[p] = outcome
<1> TypeOK
  BY DEF IInv
<1>1. PICK r \in RunIds, outcome \in {"paused", "completed", "cancelled"} :
         /\ Session!CleanupAndStore(r, outcome)
         /\ Finish(r, outcome)
         /\ pc[r] \in TryPoints
  BY StoreSteps DEF Session!ReadOrCreateSession
<1>2. session[r] = db
  BY <1>1 DEF SerialInv, InFlight, TryPoints
<1>3. db' = session'[r]
  BY <1>1 DEF Session!CleanupAndStore, Session!SaveSession
<1>4. db'[p] = IF p = r THEN outcome ELSE db[p]
  BY <1>1, <1>2, <1>3, StoreWrites
<1> QED
  BY <1>1, <1>4

\* What a run that stores its outcome makes of the row.
LEMMA SerialFinish ==
    ASSUME ~DbMayFail, TypeOK, NEW r \in RunIds,
           NEW outcome \in {"paused", "completed", "cancelled"}, Finish(r, outcome)
    PROVE  db'[r] = outcome /\ status'[r] = outcome
<1>1. Session!CleanupAndStore(r, outcome) /\ status'[r] = outcome
  BY DEF Finish, TypeOK
<1>2. session'[r][r] = outcome
  BY <1>1, StoreWrites
<1>3. db' = session'[r]
  BY <1>1 DEF Session!CleanupAndStore, Session!SaveSession
<1> QED
  BY <1>1, <1>2, <1>3

\* Serial calls keep SerialInv.
LEMMA NextSerialInv ==
    ASSUME ~Overlap, ~DbMayFail
    PROVE  IInv /\ SerialInv /\ [Next]_vars => SerialInv'
<1> SUFFICES ASSUME IInv, SerialInv, [Next]_vars PROVE SerialInv'
  OBVIOUS
<1> TypeOK
  BY DEF IInv
<1>1. ASSUME NEW r \in RunIds, NEW q \in RunIds, InFlight(r)', InFlight(q)'
      PROVE  r = q
  <2>1. CASE InFlight(r) /\ InFlight(q)
    BY <2>1 DEF SerialInv
  <2>2. ASSUME NEW u \in RunIds, MayStart, Run(u) \/ ContinueRun(u)
        PROVE  r = q
    <3>1. \A w \in RunIds \ {u} : ~InFlight(w)'
      BY <2>2, OtherRuns DEF MayStart, ClientStep, SameRun, InFlight
    <3> QED
      BY <1>1, <3>1
  <2> QED
    BY <1>1, <2>1, <2>2, CopySteps
<1>2. ASSUME NEW q \in RunIds, HasCopy(q)' PROVE session'[q] = db'
  <2>1. CASE UNCHANGED <<db, session>>
    <3>1. ASSUME Session!ReadOrCreateSession(q) PROVE session'[q] = db'
      BY <3>1 DEF Session!ReadOrCreateSession, TypeOK, Session!SessionTypeOK
    <3>2. CASE HasCopy(q)
      BY <2>1, <3>2 DEF SerialInv, HasCopy
    <3> QED
      BY <1>2, <3>1, <3>2, CopySteps
  <2>2. ASSUME NEW r \in RunIds, Session!ReadOrCreateSession(r)
        PROVE  session'[q] = db'
    <3>1. /\ db' = db
          /\ session' = [session EXCEPT ![r] = db]
      BY <2>2 DEF Session!ReadOrCreateSession
    <3>2. CASE q = r
      BY <3>1, <3>2 DEF TypeOK, Session!SessionTypeOK
    <3>3. CASE q # r /\ HasCopy(q)
      BY <3>1, <3>3 DEF SerialInv, HasCopy, TypeOK, Session!SessionTypeOK
    <3>4. CASE q # r /\ Session!ReadOrCreateSession(q)
      BY <3>4 DEF Session!ReadOrCreateSession, TypeOK, Session!SessionTypeOK
    <3> QED
      BY <1>2, <3>2, <3>3, <3>4, CopySteps
  <2>3. ASSUME NEW r \in RunIds, NEW outcome, Session!CleanupAndStore(r, outcome),
               Finish(r, outcome), pc[r] \in TryPoints
        PROVE  session'[q] = db'
    <3>1. db' = session'[r]
      BY <2>3 DEF Session!CleanupAndStore, Session!SaveSession
    <3>2. InFlight(r) /\ InFlight(r)'
      BY <2>3 DEF InFlight, TryPoints, Finish, Goto, TypeOK
    <3>3. InFlight(q)'
      BY <1>2 DEF HasCopy
    <3> QED
      BY <3>1, <3>2, <3>3, <1>1
  <2> QED
    BY <2>1, <2>2, <2>3, StoreSteps
<1>3. ASSUME NEW p \in RunIds, exit'[p] = "return" PROVE db'[p] = status'[p]
  <2>1. CASE exit[p] = "return" /\ status'[p] = status[p] /\ db'[p] = db[p]
    BY <2>1 DEF SerialInv
  <2>2. ASSUME NEW outcome \in {"paused", "completed", "cancelled"},
               Finish(p, outcome)
        PROVE  db'[p] = status'[p]
    BY <2>2, SerialFinish
  <2> QED
    BY <1>3, <2>1, <2>2, ReturnSteps, SerialWrites
<1> QED
  BY <1>1, <1>2, <1>3 DEF SerialInv, HasCopy

\* The initial state has no calls and no outcomes.
LEMMA InitSerialInv == Init => SerialInv
  BY DEF Init, SerialInv, InFlight

\* Without overlapping calls and database errors, the row says of each run what
\* its last call returned, however many runs and continuations there are.
THEOREM StoreIsSafe ==
    ASSUME ~Overlap, ~DbMayFail
    PROVE  Spec => []StoreIsTruthful
<1>1. SerialInv => StoreIsTruthful
  BY DEF SerialInv, StoreIsTruthful
<1> QED
  BY <1>1, InitSerialInv, NextSerialInv, IInvAlways, PTL DEF Spec

\* Without overlapping calls and database errors, no stored run is ever lost, and
\* no stored outcome changes but by a continuation of the run itself.
THEOREM SerialStoreKeepsRuns ==
    ASSUME ~Overlap, ~DbMayFail
    PROVE  Spec => StoredRunsPersist
<1>1. ASSUME IInv, SerialInv, [Next]_vars, NEW p \in RunIds
      PROVE  /\ db[p] # "none" => db'[p] # "none"
             /\ db'[p] # db[p] => /\ pc[p] \in TryPoints /\ pc'[p] = "stored"
                                  /\ db'[p] = status'[p]
  <2>1. CASE db'[p] = db[p]
    BY <2>1
  <2>2. CASE db'[p] # db[p]
    <3>1. PICK outcome \in {"paused", "completed", "cancelled"} :
             Finish(p, outcome) /\ pc[p] \in TryPoints /\ db'[p] = outcome
      BY <1>1, <2>2, SerialWrites
    <3> QED
      BY <1>1, <3>1 DEF Finish, Goto, IInv, TypeOK
  <2> QED
    BY <2>1, <2>2
<1>2. IInv /\ SerialInv /\ [Next]_vars
         => [\A r \in RunIds :
                /\ db[r] # "none" => db'[r] # "none"
                /\ db'[r] # db[r] => /\ pc[r] \in TryPoints /\ pc'[r] = "stored"
                                     /\ db'[r] = status'[r]]_vars
  BY <1>1
<1> QED
  BY <1>2, InitSerialInv, NextSerialInv, IInvAlways, PTL
  DEF Spec, StoredRunsPersist

----------------------------------------------------------------------------
(* RunLifecycle.                                                           *)

RequestedOf(r) == dropped[r] \/ acked[r] # "none"

\* A step of a run is a step of RunLifecycle for this run, or changes nothing
\* that its caller can see.
LEMMA PhaseSteps ==
    ASSUME IInv, NEW r \in RunIds, RunStep(r) \/ ClientStep(r)
    PROVE  \/ PhaseOf(r)' = PhaseOf(r) /\ RequestedOf(r)' = RequestedOf(r)
           \/ /\ PhaseOf(r) = "new"
              /\ PhaseOf(r)' = "running"
              /\ RequestedOf(r)' = FALSE
           \/ /\ PhaseOf(r) \in {"paused", "completed", "cancelled", "failed"}
              /\ PhaseOf(r)' = "running"
              /\ RequestedOf(r)' \in {FALSE, RequestedOf(r)}
           \/ /\ PhaseOf(r) # "new"
              /\ PhaseOf(r)' = PhaseOf(r)
              /\ RequestedOf(r)' = TRUE
           \/ /\ PhaseOf(r) = "running"
              /\ PhaseOf(r)' \in {"paused", "completed", "cancelled", "failed"}
              /\ PhaseOf(r)' = "cancelled" => RequestedOf(r)
              /\ RequestedOf(r)' = RequestedOf(r)
<1> TypeOK /\ RunInv(r)
  BY DEF IInv
<1> USE DEF TypeOK, Goto, PhaseOf, RequestedOf, InFlight
<1>1. CASE Run(r)
  <2>1. PhaseOf(r) = "new" /\ PhaseOf(r)' = "running"
    BY <1>1 DEF Run, Call
  <2>2. dropped'[r] = FALSE /\ acked'[r] = "none"
    BY <1>1 DEF Run, Call, RunInv, RegistryInv, IsCancelled, Tracked,
                Cancellation!IsCancelled
  <2>3. RequestedOf(r)' = FALSE
    BY <2>2, Zenon
  <2> QED
    BY <2>1, <2>3
<1>2. CASE ContinueRun(r)
  <2>1. /\ PhaseOf(r) \in {"paused", "completed", "cancelled", "failed"}
        /\ PhaseOf(r)' = "running"
    BY <1>2 DEF ContinueRun, Call, RunInv, StatusInv, Statuses
  <2>2. /\ dropped'[r] = FALSE
        /\ acked'[r] = IF IsCancelled(r) THEN "called" ELSE "none"
    BY <1>2 DEF ContinueRun, Call, IsCancelled, Cancellation!IsCancelled
  <2>3. CASE IsCancelled(r)
    <3>1. acked[r] # "none" /\ acked'[r] # "none"
      BY <2>2, <2>3 DEF RunInv, FlagInv, IsCancelled, Tracked
    <3>2. RequestedOf(r) = TRUE /\ RequestedOf(r)' = TRUE
      BY <3>1, Zenon
    <3> QED
      BY <2>1, <3>2
  <2>4. CASE ~IsCancelled(r)
    <3>1. acked'[r] = "none"
      BY <2>2, <2>4
    <3>2. RequestedOf(r)' = FALSE
      BY <2>2, <3>1, Zenon
    <3> QED
      BY <2>1, <3>2
  <2> QED
    BY <2>3, <2>4
<1>3. CASE CancelRequest(r)
  <2>1. PhaseOf(r)' = PhaseOf(r) /\ PhaseOf(r) # "new"
    BY <1>3 DEF CancelRequest, Statuses
  <2>2. dropped' = dropped /\ (acked'[r] = acked[r] \/ acked'[r] = pc[r])
    BY <1>3 DEF CancelRequest
  <2>3. pc[r] # "none"
    BY DEF Points, TryPoints
  <2>4. CASE acked'[r] = acked[r]
    <3>1. RequestedOf(r)' = RequestedOf(r)
      BY <2>2, <2>4, Zenon
    <3> QED
      BY <3>1, <2>1
  <2>5. CASE acked'[r] = pc[r]
    <3>1. acked'[r] # "none"
      BY <2>3, <2>5
    <3>2. RequestedOf(r)' = TRUE
      BY <3>1, Zenon
    <3> QED
      BY <3>2, <2>1
  <2> QED
    BY <2>2, <2>4, <2>5
<1>4. CASE Finally(r)
  BY <1>4 DEF Finally, RunInv, StatusInv, LateInv, Statuses
<1>5. CASE ContinueRejected(r)
  BY <1>5 DEF ContinueRejected
<1>6. CASE SetupFails(r) \/ AbandonSetup(r) \/ AbandonCall(r)
  BY <1>6 DEF SetupFails, AbandonSetup, AbandonCall
<1>7. CASE AbandonInTry(r)
  BY <1>7 DEF AbandonInTry, AbandonPoints
<1>8. CASE Backoff(r)
  BY <1>8 DEF Backoff
<1>9. CASE BeginAttempt(r) \/ SetupDone(r)
  <2>1. PhaseOf(r)' = PhaseOf(r)
    BY <1>9 DEF BeginAttempt, SetupDone
  <2>2. \/ acked' = acked /\ dropped' = dropped
        \/ /\ dropped' = [dropped EXCEPT ![r] = @ \/ acked[r] # "none"]
           /\ acked' = [acked EXCEPT ![r] = "none"]
    BY <1>9 DEF BeginAttempt, SetupDone, Register
  <2>3. CASE acked' = acked /\ dropped' = dropped
    <3>1. RequestedOf(r)' = RequestedOf(r)
      BY <2>3, Zenon
    <3> QED
      BY <2>1, <3>1
  <2>4. CASE /\ dropped' = [dropped EXCEPT ![r] = @ \/ acked[r] # "none"]
             /\ acked' = [acked EXCEPT ![r] = "none"]
    <3>1. acked'[r] = "none"
      BY <2>4
    <3>2. dropped'[r] = (dropped[r] \/ acked[r] # "none")
      BY <2>4, Zenon
    <3>3. RequestedOf(r)' = RequestedOf(r)
      BY <3>1, <3>2, Zenon
    <3> QED
      BY <2>1, <3>3
  <2> QED
    BY <2>2, <2>3, <2>4
<1>10. CASE \/ Entry(r) \/ Prepare(r) \/ BeforeModel(r) \/ ModelResponds(r)
           \/ AfterModel(r) \/ BeforeHooks(r) \/ PostHooks(r) \/ AfterHooks(r)
  BY <1>10 DEF Entry, Prepare, BeforeModel, ModelResponds, AfterModel, BeforeHooks,
     PostHooks, AfterHooks, Checkpoint
<1>11. CASE \/ Complete(r) \/ Pause(r) \/ YieldCancelledEvent(r)
           \/ StoreCancelled(r) \/ StepFails(r) \/ Return(r)
  BY <1>11 DEF Complete, Pause, YieldCancelledEvent, StoreCancelled, Finish, StepFails,
               Return
<1> QED
  BY <1>1, <1>2, <1>3, <1>4, <1>5, <1>6, <1>7, <1>8, <1>9, <1>10, <1>11
  DEF RunStep, ClientStep

\* Every step of the agent is a step of RunLifecycle or stutters.
LEMMA LifecycleSteps ==
    IInv /\ [Next]_vars => [Lifecycle!LifecycleNext]_(Lifecycle!lifecycleVars)
<1> SUFFICES ASSUME IInv, [Next]_vars
             PROVE  \/ \E r \in RunIds : \/ Lifecycle!Begin(r)
                                          \/ Lifecycle!Resume(r)
                                          \/ Lifecycle!Request(r)
                                          \/ Lifecycle!Stop(r)
                    \/ UNCHANGED Lifecycle!lifecycleVars
  BY DEF Lifecycle!LifecycleNext
<1> TypeOK
  BY DEF IInv
<1>s. ASSUME NEW q \in RunIds, SameRun(q)
      PROVE  PhaseOf(q)' = PhaseOf(q) /\ RequestedOf(q)' = RequestedOf(q)
  BY <1>s DEF SameRun, PhaseOf, RequestedOf, InFlight
<1>1. CASE \A q \in RunIds :
             PhaseOf(q)' = PhaseOf(q) /\ RequestedOf(q)' = RequestedOf(q)
  BY <1>1 DEF Lifecycle!lifecycleVars, RequestedOf
<1>2. ASSUME NEW r \in RunIds, RunStep(r) \/ ClientStep(r)
      PROVE  \/ Lifecycle!Begin(r) \/ Lifecycle!Resume(r)
             \/ Lifecycle!Request(r) \/ Lifecycle!Stop(r)
             \/ UNCHANGED Lifecycle!lifecycleVars
  <2>1. \A q \in RunIds \ {r} :
           PhaseOf(q)' = PhaseOf(q) /\ RequestedOf(q)' = RequestedOf(q)
    BY <1>2, <1>s, OtherRuns
  <2> QED
    BY <1>2, <2>1, PhaseSteps
    DEF Lifecycle!Begin, Lifecycle!Resume, Lifecycle!Request, Lifecycle!Stop,
        Lifecycle!lifecycleVars, RequestedOf
<1>3. CASE UNCHANGED vars
  BY <1>1, <1>3, <1>s DEF vars, SameRun
<1>4. ASSUME NEW r \in RunIds, NEW a \in Attempts, MemoryTaskEnds(r, a)
      PROVE  UNCHANGED Lifecycle!lifecycleVars
  BY <1>1, <1>4, <1>s, TaskInv DEF Lifecycle!lifecycleVars, RequestedOf
<1> QED
  BY <1>2, <1>3, <1>4, <1>1 DEF Next, Lifecycle!lifecycleVars, RequestedOf

\* The eight functions, with their retries, pauses, interrupts and late cancels,
\* implement the one life cycle their callers know (its safety part).
THEOREM AgentImplementsLifecycle ==
    Spec => Lifecycle!LifecycleInit
            /\ [][Lifecycle!LifecycleNext]_(Lifecycle!lifecycleVars)
<1>1. Init => Lifecycle!LifecycleInit
  <2> SUFFICES ASSUME Init
               PROVE  Lifecycle!LifecycleInit
    OBVIOUS
  <2>1. \A r \in RunIds : PhaseOf(r) = "new"
    BY DEF Init, PhaseOf, InFlight
  <2>2. \A r \in RunIds : dropped[r] = FALSE /\ acked[r] = "none"
    BY DEF Init
  <2>3. \A r \in RunIds : (dropped[r] \/ acked[r] # "none") = FALSE
    BY <2>2, Zenon
  <2> QED
    BY <2>1, <2>3, Zenon DEF Lifecycle!LifecycleInit
<1> QED
  BY <1>1, LifecycleSteps, IInvAlways, PTL DEF Spec

----------------------------------------------------------------------------
(* Memory tasks.                                                           *)

Pending(r, a) == memory[r][a] = "pending"

AsyncRun(r) == function[r] \in Async \cap RunFunctions

\* An asynchronous run has one attempt, whose task is pending in the try statement
\* and its finally only; a run that returns has waited for the last task.
MemoryInv(r) ==
    /\ pc[r] = "idle" => \A a \in Attempts : ~Pending(r, a)
    /\ AsyncRun(r) => /\ pc[r] # "backoff"
                      /\ \A a \in Attempts : Pending(r, a) => a = attempt[r]
    /\ AsyncRun(r) /\ pc[r] \in {"called", "setup", "ended"}
          => ~Pending(r, attempt[r])
    /\ function[r] \in RunFunctions /\ Over(r, status[r]) /\ status[r] # "cancelled"
          => ~Pending(r, attempt[r])

\* No task is started for the run, and nothing else of it changes.
SameTasks(q) ==
    /\ SameRun(q)
    /\ attempt'[q] = attempt[q]
    /\ \A a \in Attempts : memory'[q][a] = "pending" => Pending(q, a)

\* Tasks of a run that end do not disturb MemoryInv.
LEMMA SameMemoryInv ==
    ASSUME TypeOK, NEW q \in RunIds, MemoryInv(q), SameTasks(q)
    PROVE  MemoryInv(q)'
  BY DEF TypeOK, MemoryInv, SameTasks, SameRun, AsyncRun, Pending, Over

\* A step of one run leaves the tasks of the others alone.
LEMMA OtherTasks ==
    ASSUME TypeOK, NEW r \in RunIds, NEW q \in RunIds, q # r,
           RunStep(r) \/ ClientStep(r)
    PROVE  attempt'[q] = attempt[q] /\ memory'[q] = memory[q]
<1> USE DEF TypeOK
<1>1. CASE Run(r) \/ ContinueRun(r) \/ ContinueRejected(r) \/ CancelRequest(r)
  BY <1>1 DEF Run, ContinueRun, Call, ContinueRejected, CancelRequest
<1>2. CASE BeginAttempt(r) \/ SetupFails(r) \/ SetupDone(r) \/ StepFails(r)
  BY <1>2 DEF BeginAttempt, SetupFails, SetupDone, StepFails
<1>3. CASE \/ Entry(r) \/ Prepare(r) \/ BeforeModel(r) \/ ModelResponds(r)
           \/ AfterModel(r) \/ BeforeHooks(r) \/ PostHooks(r) \/ AfterHooks(r)
  BY <1>3 DEF Entry, Prepare, BeforeModel, ModelResponds, AfterModel, BeforeHooks,
     PostHooks, AfterHooks, Checkpoint
<1>4. CASE \/ Complete(r) \/ Pause(r) \/ YieldCancelledEvent(r)
          \/ StoreCancelled(r) \/ Return(r)
  BY <1>4 DEF Complete, Pause, YieldCancelledEvent, StoreCancelled, Finish, Return
<1>5. CASE Finally(r) \/ Backoff(r)
  BY <1>5 DEF Finally, Backoff
<1>6. CASE AbandonInTry(r) \/ AbandonSetup(r) \/ AbandonCall(r)
  BY <1>6 DEF AbandonInTry, AbandonSetup, AbandonCall
<1> QED
  BY <1>1, <1>2, <1>3, <1>4, <1>5, <1>6 DEF RunStep, ClientStep

\* The steps of a run keep its MemoryInv.
LEMMA OwnTasks ==
    ASSUME TypeOK, NEW r \in RunIds, RunInv(r), MemoryInv(r),
           RunStep(r) \/ ClientStep(r)
    PROVE  MemoryInv(r)'
<1> USE DEF TypeOK, Goto, MemoryInv, AsyncRun, Pending, Over
<1>1. CASE Run(r)
  <2>1. /\ pc'[r] = "called" /\ attempt'[r] = 0 /\ memory' = memory
        /\ \A a \in Attempts : ~Pending(r, a)
    BY <1>1 DEF Run, Call
  <2>2. 0 \in Attempts
    BY MaxRetriesAssumption DEF Attempts
  <2> HIDE DEF TypeOK
  <2> QED
    BY <2>1, <2>2
<1>2. CASE ContinueRun(r)
  <2>1. pc'[r] = "called" /\ function'[r] \in ContinueFunctions
    BY <1>2 DEF ContinueRun, Call
  <2>2. function'[r] \notin RunFunctions
    BY <2>1 DEF RunFunctions, ContinueFunctions
  <2> QED
    BY <2>1, <2>2
<1>3. CASE ContinueRejected(r) \/ CancelRequest(r)
  BY <1>3 DEF ContinueRejected, CancelRequest
<1>4. CASE BeginAttempt(r) \/ SetupFails(r) \/ StepFails(r)
  BY <1>4 DEF BeginAttempt, SetupFails, StepFails
<1>5. CASE SetupDone(r)
  BY <1>5 DEF SetupDone
<1>6. CASE \/ Entry(r) \/ Prepare(r) \/ BeforeModel(r) \/ ModelResponds(r)
           \/ AfterModel(r) \/ BeforeHooks(r) \/ PostHooks(r) \/ AfterHooks(r)
  BY <1>6 DEF Entry, Prepare, BeforeModel, ModelResponds, AfterModel, BeforeHooks,
     PostHooks, AfterHooks, Checkpoint
<1>7. CASE Complete(r) \/ Pause(r)
  BY <1>7 DEF Complete, Pause, Finish, MemoryAwaited
<1>8. CASE YieldCancelledEvent(r) \/ StoreCancelled(r) \/ Return(r)
  BY <1>8 DEF YieldCancelledEvent, StoreCancelled, Finish, Return
<1>9. CASE Finally(r)
  <2>1. /\ pc[r] = "finally" /\ pc'[r] \in {"backoff", "ended"}
        /\ function' = function /\ attempt' = attempt /\ status' = status
        /\ exit' = exit
    BY <1>9 DEF Finally
  <2>2. AsyncRun(r) => pc'[r] = "ended"
    BY <1>9 DEF Finally, Retries, Retrying, Async
  <2>3. AsyncRun(r) => memory'[r][attempt[r]] # "pending"
    <3>1. CASE memory[r][attempt[r]] = "pending"
      BY <1>9, <3>1 DEF Finally
    <3>2. CASE memory[r][attempt[r]] # "pending"
      BY <1>9, <3>2 DEF Finally
    <3> QED
      BY <3>1, <3>2
  <2>4. \A a \in Attempts : memory'[r][a] = "pending" => Pending(r, a)
    <3>1. CASE memory' = memory
      BY <3>1
    <3>2. CASE memory' = [memory EXCEPT ![r] = [@ EXCEPT ![attempt[r]] = "dropped"]]
      BY <3>2
    <3> QED
      BY <1>9, <3>1, <3>2 DEF Finally
  <2>5. attempt[r] \in Attempts
    OBVIOUS
  <2> HIDE DEF TypeOK
  <2> QED
    BY <2>1, <2>2, <2>3, <2>4, <2>5
<1>10. CASE Backoff(r)
  BY <1>10 DEF Backoff
<1>11. CASE AbandonInTry(r)
  BY <1>11 DEF AbandonInTry, AbandonPoints
<1>12. CASE AbandonSetup(r) \/ AbandonCall(r)
  BY <1>12 DEF AbandonSetup, AbandonCall
<1> QED
  BY <1>1, <1>2, <1>3, <1>4, <1>5, <1>6, <1>7, <1>8, <1>9, <1>10, <1>11, <1>12
  DEF RunStep, ClientStep

\* A run that returned completed or paused has waited for its last memory task,
\* and an asynchronous run leaves none behind, for any number of runs and retries.
THEOREM NoTaskIsLost == Spec => []NoOrphanTask
<1> DEFINE Inv == \A r \in RunIds : MemoryInv(r)
<1>1. Init => Inv
  <2> SUFFICES ASSUME Init, NEW r \in RunIds PROVE MemoryInv(r)
    OBVIOUS
  <2>1. pc[r] = "idle" /\ ~AsyncRun(r) /\ exit[r] = "none"
    BY DEF Init, AsyncRun, Async
  <2>2. \A a \in Attempts : ~Pending(r, a)
    BY DEF Init, Pending
  <2> QED
    BY <2>1, <2>2 DEF MemoryInv, Over
<1>2. IInv /\ Inv /\ [Next]_vars => Inv'
  <2> SUFFICES ASSUME IInv, Inv, [Next]_vars, NEW q \in RunIds PROVE MemoryInv(q)'
    OBVIOUS
  <2>0. TypeOK /\ RunInv(q) /\ MemoryInv(q)
    BY DEF IInv
  <2>1. CASE UNCHANGED vars
    BY <2>0, <2>1, SameMemoryInv DEF vars, SameTasks, SameRun, Pending
  <2>2. ASSUME NEW r \in RunIds, RunStep(r) \/ ClientStep(r) PROVE MemoryInv(q)'
    <3>1. CASE q = r
      BY <2>0, <2>2, <3>1, OwnTasks
    <3>2. CASE q # r
      BY <2>0, <2>2, <3>2, OtherRuns, OtherTasks, SameMemoryInv DEF SameTasks, Pending
    <3> QED
      BY <3>1, <3>2
  <2>3. ASSUME NEW r \in RunIds, NEW a \in Attempts, MemoryTaskEnds(r, a)
        PROVE  MemoryInv(q)'
    <3>1. SameRun(q) /\ attempt'[q] = attempt[q]
      BY <2>3, TaskInv DEF MemoryTaskEnds
    <3>2. \A b \in Attempts : memory'[q][b] = "pending" => Pending(q, b)
      BY <2>0, <2>3 DEF MemoryTaskEnds, TypeOK, Pending
    <3> QED
      BY <2>0, <3>1, <3>2, SameMemoryInv DEF SameTasks
  <2> QED
    BY <2>1, <2>2, <2>3 DEF Next
<1>3. Inv => NoOrphanTask
  BY DEF MemoryInv, AsyncRun, Pending, Over, NoOrphanTask
<1> QED
  BY <1>1, <1>2, <1>3, IInvAlways, PTL DEF Spec
=============================================================================
