----------------------------- MODULE Checkpoints -----------------------------
(****************************************************************************)
(* The durable checkpoints of a replacement job and the graph that          *)
(* ReplacementStateMachine (app/replacement/state.py) lets a job walk.      *)
(* Values are those of the enum ReplacementCheckpoint; "none" is a job row  *)
(* that has not been inserted yet.                                          *)
(****************************************************************************)

\* _TERMINAL: no transition leaves these, and entering one frees active_slot.
Terminal == {"completed", "failed", "cancelled"}

\* _FORWARD, as a set of edges.
Forward ==
  { <<"created", "provisioning">>,          <<"provisioning", "provisioned">>,
    <<"provisioned", "checking_ip">>,       <<"provisioned", "temp_cleanup">>,
    <<"checking_ip", "ip_verified">>,       <<"checking_ip", "temp_cleanup">>,
    <<"temp_cleanup", "provisioning">>,     <<"ip_verified", "deploying">>,
    <<"deploying", "node_verified">>,       <<"node_verified", "master_updating">>,
    <<"master_updating", "master_updated">>,
    <<"master_updated", "master_verifying">>,
    <<"master_verifying", "master_verified">>,
    <<"master_verified", "final_check">>,   <<"final_check", "final_verified">>,
    <<"final_verified", "old_vps_cleanup">>, <<"old_vps_cleanup", "completed">> }

Running ==
  { "created", "provisioning", "provisioned", "checking_ip", "temp_cleanup",
    "ip_verified", "deploying", "node_verified", "master_updating",
    "master_updated", "master_verifying", "master_verified", "final_check",
    "final_verified", "old_vps_cleanup" }

Checkpoint == Running \cup Terminal

\* can_transition: re-entering the current checkpoint is a silent no-op, the
\* forward edges are legal, and every running checkpoint may fail or be
\* cancelled (_ALLOWED).
CanTransition(current, target) ==
  \/ target = current
  \/ <<current, target>> \in Forward
  \/ current \in Running /\ target \in {"failed", "cancelled"}

\* transition applied to a job row: the checkpoint, and the freed slot.
FaultyMoved(row, target) == [row EXCEPT !.cp = target]
Moved(row, target) ==
  [row EXCEPT !.cp = target,
              !.slot = IF target \in Terminal THEN FALSE ELSE @]
=============================================================================
