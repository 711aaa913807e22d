--------------------------- MODULE MCEventOutbox ---------------------------
(* Instances of EventOutbox for TLC: two events of one type.               *)
EXTENDS EventOutbox

OneType == [e \in Events |-> "leave.request.cancelled"]
TheType == {"leave.request.cancelled"}
=============================================================================
