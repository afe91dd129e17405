------------------------------ MODULE NodeStates ------------------------------
(****************************************************************************)
(* The operational state of a node and the graph that NodeStateMachine      *)
(* (app/services/node_state.py) enforces, with the two entry points made    *)
(* for forced repairs.                                                      *)
(****************************************************************************)

\* States monitoring may move a node between (NodeHealthCalculator).
Monitored == {"UNKNOWN", "HEALTHY", "DEGRADED", "FAILED"}

\* States that say a replacement workflow owns the node.
InWorkflow == {"REPLACING", "DEPLOYING", "VERIFYING"}

NodeState == Monitored \cup InWorkflow \cup {"DISABLED"}

\* _ALLOWED_TRANSITIONS.
NodeEdges ==
  ({"UNKNOWN"} \X {"HEALTHY", "DEGRADED", "FAILED", "DISABLED"}) \cup
  ({"HEALTHY"} \X {"DEGRADED", "DISABLED"}) \cup
  ({"DEGRADED"} \X {"HEALTHY", "FAILED", "DISABLED"}) \cup
  ({"FAILED"} \X {"HEALTHY", "REPLACING", "DISABLED"}) \cup
  ({"REPLACING"} \X {"DEPLOYING", "FAILED", "DISABLED"}) \cup
  ({"DEPLOYING"} \X {"VERIFYING", "REPLACING", "FAILED", "DISABLED"}) \cup
  ({"VERIFYING"} \X {"HEALTHY", "REPLACING", "FAILED", "DISABLED"}) \cup
  {<<"DISABLED", "UNKNOWN">>}

\* can_transition: the current state again is an idempotent no-op.
CanMove(current, target) == target = current \/ <<current, target>> \in NodeEdges

\* A forced repair may start from any operational state.
CanForce(current) == current \in Monitored

\* _restore_node_after_unsuccessful_job: a forced job that had not recorded a
\* Master switch restores the state it started from, any other job leaves the
\* node FAILED; a node the workflow does not own is left alone.
Restored(current, forced, switched, original) ==
  CASE current \notin InWorkflow -> current
    [] current \in InWorkflow /\ forced /\ ~switched -> original
    [] OTHER -> "FAILED"
=============================================================================
