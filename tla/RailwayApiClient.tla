-------------------------- MODULE RailwayApiClient --------------------------
(***************************************************************************)
(* One call of RailwayApiClient.execute (agno/railway/api_client.py): the  *)
(* loop that sends a request up to max_retries times.  Whether the server  *)
(* executed a request whose answer was lost is not known to the client,    *)
(* and the loop does not ask: a mutation may take effect several times.    *)
(***************************************************************************)
EXTENDS Naturals, RailwayApiOutcomes

CONSTANT MaxRetries   \* max_retries: the number of requests, the first included

ASSUME MaxRetriesAssumption == MaxRetries \in Nat

VARIABLES sent,     \* requests sent so far
          effects,  \* how often the server executed the request
          lost,     \* answers not got, not usable, or that said 5xx
          outcome   \* how execute ended

clientVars == <<sent, effects, lost, outcome>>

ClientTypeOK ==
    /\ sent \in 0 .. MaxRetries
    /\ effects \in 0 .. MaxRetries
    /\ lost \in 0 .. MaxRetries
    /\ outcome \in {"none", "data", "raised"}

ClientInit == sent = 0 /\ effects = 0 /\ lost = 0 /\ outcome = "none"

CanSend == outcome = "none" /\ sent < MaxRetries

Send == CanSend /\ sent' = sent + 1

\* Mutant: the loop goes on after it has got the data.
AnswerDataIgnored ==
    /\ Send
    /\ effects' = effects + 1
    /\ UNCHANGED <<lost, outcome>>

\* A response without errors is returned.
AnswerData ==
    /\ Send
    /\ effects' = effects + 1
    /\ outcome' = "data"
    /\ lost' = lost

\* The status codes 4xx but 429, and GraphQL errors of a request that was not
\* executed, end the loop at once.
AnswerRejected ==
    /\ Send
    /\ outcome' = "raised"
    /\ UNCHANGED <<effects, lost>>

\* So does an answer that is there and cannot be used, whatever the server did:
\* a body that is not JSON (no handler catches what response.json raises), one
\* that is no object, or errors that stand next to the data of a request that
\* was executed.
AnswerUnusable ==
    /\ Send
    /\ effects' \in {effects, effects + 1}
    /\ lost' = lost + 1
    /\ outcome' = "raised"

\* Status 429: the server did nothing, wait and send again.
AnswerRateLimited == Send /\ UNCHANGED <<effects, lost, outcome>>

\* Status 5xx, a timeout, a broken connection: before or after the server has
\* executed the request.  Wait and send again.
AnswerLost ==
    /\ Send
    /\ effects' \in {effects, effects + 1}
    /\ lost' = lost + 1
    /\ outcome' = outcome

\* Mutant: the loop only notices that it is over when it has gone too far.
GiveUpLate ==
    /\ outcome = "none"
    /\ sent > MaxRetries
    /\ outcome' = "raised"
    /\ UNCHANGED <<sent, effects, lost>>

GiveUp ==
    /\ outcome = "none"
    /\ sent = MaxRetries
    /\ outcome' = "raised"
    /\ UNCHANGED <<sent, effects, lost>>

ClientNext ==
    AnswerData \/ AnswerRejected \/ AnswerUnusable \/ AnswerRateLimited
        \/ AnswerLost \/ GiveUp

ClientSpec == ClientInit /\ [][ClientNext]_clientVars /\ WF_clientVars(ClientNext)

----------------------------------------------------------------------------
\* execute never reports anything else: data means that the mutation was
\* executed, and every other execution goes back to an answer that was lost or
\* could not be used.  RailwayDeployment draws the outcome of its mutations from
\* this set.
OutcomeIsAccounted ==
    outcome # "none" =>
        [ok |-> outcome = "data", effects |-> effects] \in Outcomes(lost)

\* Every call of execute returns or raises.
ExecuteEnds == <>(outcome # "none")
=============================================================================
