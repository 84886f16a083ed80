--------------------------- MODULE MCUsageOutbox ---------------------------
(* Model values and small instances of UsageOutbox. *)
EXTENDS UsageOutbox

CONSTANTS worker, other

JobsReplica == {worker}
TwoReplicas == {worker, other}
=============================================================================
