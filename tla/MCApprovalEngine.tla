-------------------------- MODULE MCApprovalEngine --------------------------
(* Instances of ApprovalEngine for TLC.  Every step has an approver of its *)
(* own and a delegate who may decide all of them; the requester may cancel *)
(* and would be an approver of the first step, were it not for the check.  *)
EXTENDS ApprovalEngine, TLC

CONSTANTS alice, bob, carol      \* requester, first approver, delegate

TwoStepApprovers == 0 :> {alice, bob, carol} @@ 1 :> {carol}
ThreeStepApprovers == 0 :> {alice, bob, carol} @@ 1 :> {carol} @@ 2 :> {bob}
OneSubject == [r \in Requests |-> "leave"]
OwnSubject == [r \in Requests |-> r]
=============================================================================
