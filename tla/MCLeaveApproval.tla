-------------------------- MODULE MCLeaveApproval --------------------------
(* Instances of LeaveApproval for TLC: one leave with as many approval      *)
(* requests as handlers could insert, or a request for each of two leaves.  *)
EXTENDS LeaveApproval, TLC

OneLeave == [r \in Requests |-> CHOOSE l \in Leaves : TRUE]
LeaveByLeave == CHOOSE f \in [Requests -> Leaves] : \A l \in Leaves : \E r \in Requests : f[r] = l
NoOverlap == {}
BothOverlap == {<<l, m>> \in Leaves \X Leaves : l # m}
Deliveries == Permutations(Handlers)
CallSymmetry == Permutations(Calls)
=============================================================================
