-------------------------- MODULE ApprovalDecision --------------------------
(***************************************************************************)
(* What the approval engine promises its callers: a request is approved    *)
(* step by step, or rejected, or cancelled, is final after that, and its   *)
(* completion is announced exactly once, in the transaction that decides.  *)
(* ApprovalEngine is the detailed specification that implements this one;  *)
(* LeaveApproval, PayrollRuns and AssetIssues build on these actions.      *)
(***************************************************************************)
EXTENDS Naturals, Sequences

CONSTANTS Requests,   \* approval_requests.id
          NSteps      \* steps of the policy the requests are made under

ASSUME NStepsAssumption == NSteps \in Nat \ {0}

VARIABLES status,     \* of each request, "none" before it is created
          approvals,  \* how many of its steps are approved
          announced   \* the outcomes of its approval.request.completed events

decisionVars == <<status, approvals, announced>>

Outcome == {"approved", "rejected", "cancelled"}

DecisionInit ==
    /\ status = [r \in Requests |-> "none"]
    /\ approvals = [r \in Requests |-> 0]
    /\ announced = [r \in Requests |-> <<>>]

Create(r) ==
    /\ status[r] = "none"
    /\ status' = [status EXCEPT ![r] = "pending"]
    /\ UNCHANGED <<approvals, announced>>

Complete(r, outcome) ==
    /\ status' = [status EXCEPT ![r] = outcome]
    /\ announced' = [announced EXCEPT ![r] = Append(@, outcome)]

ApproveStep(r) ==
    /\ status[r] = "pending"
    /\ approvals[r] + 1 < NSteps
    /\ approvals' = [approvals EXCEPT ![r] = @ + 1]
    /\ UNCHANGED <<status, announced>>

ApproveLastStep(r) ==
    /\ status[r] = "pending"
    /\ approvals[r] + 1 = NSteps
    /\ approvals' = [approvals EXCEPT ![r] = @ + 1]
    /\ Complete(r, "approved")

Reject(r) ==
    /\ status[r] = "pending"
    /\ Complete(r, "rejected")
    /\ UNCHANGED approvals

Cancel(r) ==
    /\ status[r] = "pending"
    /\ Complete(r, "cancelled")
    /\ UNCHANGED approvals

DecisionNext ==
    \E r \in Requests : \/ Create(r)
                        \/ ApproveStep(r) \/ ApproveLastStep(r)
                        \/ Reject(r) \/ Cancel(r)

DecisionSpec == DecisionInit /\ [][DecisionNext]_decisionVars

-----------------------------------------------------------------------------

\* What follows for the callers: the outcome of a request is announced once,
\* with the decision that makes it final; an approval took every step.
OutcomesAreAnnounced ==
    \A r \in Requests :
        announced[r] = IF status[r] \in Outcome THEN <<status[r]>> ELSE <<>>

ApprovalTakesEveryStep ==
    \A r \in Requests : (status[r] = "approved") <=> (approvals[r] = NSteps)

\* A request that is final stays as it is: nobody decides it a second time.
FinalIsFinal ==
    [][\A r \in Requests : status[r] \in Outcome =>
            UNCHANGED <<status[r], approvals[r], announced[r]>>]_decisionVars
=============================================================================
