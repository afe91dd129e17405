---------------------------- MODULE Preparation ----------------------------
(****************************************************************************)
(* From a new server to a panel that can be put in service: the address is  *)
(* judged (Reachability), then 3X-UI is deployed (Deployment), by one       *)
(* execution after another of one job.                                      *)
(****************************************************************************)
EXTENDS Verdicts

CONSTANTS Rounds, Required, OuterProbes, OuterMin, InnerProbes, InnerMin, MaxFaults

\* Settings' validators (app/core/config.py).
ASSUME PreparationAssumption ==
  /\ Rounds \in Nat \ {0} /\ Required \in 1..Rounds
  /\ OuterProbes \in Nat /\ OuterMin \in 1..OuterProbes
  /\ InnerProbes \in Nat /\ InnerMin \in 1..InnerProbes /\ MaxFaults \in Nat

VARIABLES cp, pc, tally, up, blocked,
          dep, mayExist, config, stored, panel, orphan, overlap, untidy, faults

Judge == INSTANCE Reachability
Panel == INSTANCE Deployment

judging == <<tally, up, blocked>>
deploying == <<dep, mayExist, config, stored, panel, orphan, overlap, untidy, faults>>
vars == <<cp, pc, judging, deploying>>

Init == Judge!RInit /\ Panel!DInit

Next ==
  \/ Judge!RNext /\ UNCHANGED deploying
  \/ Panel!DNext /\ UNCHANGED judging

Spec == Init /\ [][Next]_vars

\* The worker resumes an active job in every cycle, and every remote command has
\* a timeout; nothing is assumed of the rounds, which may be inconclusive for ever.
FairSpec == Spec /\ WF_vars(Panel!DStep /\ UNCHANGED judging)

------------------------------------------------------------------------------
(* Properties.                                                              *)

TypeOK ==
  /\ cp \in {"checking_ip", "ip_verified", "temp_cleanup", "deploying", "node_verified", "failed"}
  /\ pc \in {"idle", "outer", "inner", "decide"} \cup Panel!Working
  /\ tally \in [round : 0..Rounds, clean : 0..Rounds, filtered : 0..Rounds,
                misled : 0..(2 * Rounds)]
  /\ tally.clean + tally.filtered <= tally.round
  /\ up \in BOOLEAN /\ blocked \in BOOLEAN
  /\ dep \in Panel!DeploymentState /\ mayExist \in BOOLEAN
  /\ panel.svc \in {"none", "up", "down"}
  /\ config \in 0..panel.creds /\ stored \in 0..panel.creds
  /\ orphan \in BOOLEAN /\ overlap \in BOOLEAN /\ untidy \in BOOLEAN /\ faults \in 0..MaxFaults

\* A candidate is discarded only if it is up and filtered, and accepted only if
\* it is up and not filtered, unless the check nodes were wrong by a quorum in
\* as many rounds as a consensus takes.  In particular a server that is slow to
\* boot, and reports that are still pending, never condemn an address
\* (docs/REPLACEMENT.md:44).
VerdictsSound ==
  tally.misled < Required =>
    /\ cp = "temp_cleanup" => up /\ blocked
    /\ dep # "none" => up /\ ~blocked

\* What NODE_VERIFIED promises the Master update: the deployment has succeeded,
\* the service is up, and the stored credentials are the ones it has, through
\* crashes, resumed installations and services stopped by a rollback.  Only an
\* installer that outlived its connection can undo that.
VerifiedPanelWorks ==
  cp = "node_verified" =>
    dep = "succeeded" /\ (overlap \/ panel = [svc |-> "up", creds |-> stored])

\* A deployment that fails leaves no service running on the candidate, however
\* far it got (docs/DEPLOYMENT.md, "Rollback"), unless its undoing was itself cut
\* off, an installer outlived it, or it had succeeded and only the storing of its
\* credentials failed, which nothing undoes.
FailureLeavesNoService ==
  cp = "failed" => panel.svc # "up" \/ overlap \/ untidy

\* A deployment is not left half done: each ends with a verified panel or with
\* the failure of its job.
DeploymentEnds == cp = "ip_verified" ~> cp \in {"node_verified", "failed"}
=============================================================================
