----------------------- MODULE RailwayApiClientProofs -----------------------
(***************************************************************************)
(* What RailwayApiClient.execute reports accounts for what the server did, *)
(* for every max_retries.                                                  *)
(***************************************************************************)
EXTENDS RailwayApiClient, TLAPS

\* While the loop goes on, and after it has raised, every execution is one whose
\* answer was lost or of no use; the answer that is returned is one more.
ExecutionInv ==
    /\ sent \in Nat /\ effects \in Nat /\ lost \in Nat
    /\ outcome \in {"none", "data", "raised"}
    /\ sent <= MaxRetries
    /\ outcome # "data" => effects <= lost
    /\ outcome = "data" => effects >= 1 /\ effects <= 1 + lost
    /\ effects <= sent /\ lost <= sent

\* At first nothing is sent; every answer, and the end of the loop, keep the
\* account.
LEMMA ExecutionAlways == ClientSpec => []ExecutionInv
<1>1. ClientInit => ExecutionInv
  BY MaxRetriesAssumption DEF ClientInit, ExecutionInv
<1>2. ExecutionInv /\ [ClientNext]_clientVars => ExecutionInv'
  <2> SUFFICES ASSUME ExecutionInv, [ClientNext]_clientVars PROVE ExecutionInv'
    OBVIOUS
  <2> USE MaxRetriesAssumption DEF ExecutionInv, Send, CanSend
  <2>1. CASE AnswerData
    BY <2>1 DEF AnswerData
  <2>2. CASE AnswerRejected
    BY <2>2 DEF AnswerRejected
  <2>3. CASE AnswerRateLimited
    BY <2>3 DEF AnswerRateLimited
  <2>4. CASE AnswerLost
    BY <2>4 DEF AnswerLost
  <2>5. CASE GiveUp
    BY <2>5 DEF GiveUp
  <2>6. CASE AnswerUnusable
    BY <2>6 DEF AnswerUnusable
  <2>7. CASE UNCHANGED clientVars
    BY <2>7 DEF clientVars
  <2> QED
    BY <2>1, <2>2, <2>3, <2>4, <2>5, <2>6, <2>7 DEF ClientNext
<1> QED
  BY <1>1, <1>2, PTL DEF ClientSpec

\* The loop never sends more than max_retries requests, nor counts more.
THEOREM ClientTypesAreCorrect == ClientSpec => []ClientTypeOK
<1>1. ExecutionInv => ClientTypeOK
  BY MaxRetriesAssumption DEF ExecutionInv, ClientTypeOK
<1> QED
  BY <1>1, ExecutionAlways, PTL

\* Data is returned only for a mutation that was executed, and every other
\* execution goes back to an answer that was lost or could not be used, however
\* often it is sent.
THEOREM ExecuteAccounts == ClientSpec => []OutcomeIsAccounted
<1>1. ExecutionInv => OutcomeIsAccounted
  <2> SUFFICES ASSUME ExecutionInv, outcome # "none"
               PROVE  [ok |-> outcome = "data", effects |-> effects] \in Outcomes(lost)
    BY DEF OutcomeIsAccounted
  <2>1. CASE outcome = "data"
    <3>1. effects \in 1 .. 1 + lost
      BY <2>1 DEF ExecutionInv
    <3>2. [ok |-> TRUE, effects |-> effects] \in Outcomes(lost)
      BY <3>1 DEF Outcomes
    <3>3. (outcome = "data") = TRUE
      BY <2>1
    <3> QED
      BY <3>2, <3>3, Zenon
  <2>2. CASE outcome = "raised"
    <3>1. effects \in 0 .. lost
      BY <2>2 DEF ExecutionInv
    <3>2. [ok |-> FALSE, effects |-> effects] \in Outcomes(lost)
      BY <3>1 DEF Outcomes
    <3>3. (outcome = "data") = FALSE
      BY <2>2
    <3> QED
      BY <3>2, <3>3, Zenon
  <2> QED
    BY <2>1, <2>2 DEF ExecutionInv
<1> QED
  BY <1>1, ExecutionAlways, PTL
=============================================================================
