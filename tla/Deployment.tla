----------------------------- MODULE Deployment -----------------------------
(****************************************************************************)
(* The stages IP_VERIFIED and DEPLOYING: DeploymentService.deploy on the    *)
(* verified candidate, resumed from the state its row holds, and the        *)
(* orchestrator's last transaction, which keeps the panel's credentials.    *)
(* A command outlives the SSH connection it was started from.               *)
(****************************************************************************)
EXTENDS Naturals

CONSTANT MaxFaults   \* bound on crashes and on lost connections

VARIABLES
  cp, pc,    \* checkpoint of the job, step of its execution
  dep,       \* state in the deployments row
  mayExist,  \* installation_may_exist
  config,    \* version of the credentials that were read
  stored,    \* version of the credentials in the secret store
  panel,     \* 3X-UI on the server: service, version of its credentials
  orphan,    \* an installer runs on the server and nobody waits for it
  overlap,   \* history: there has been such an installer
  untidy,    \* history: the undoing of a failed deployment was cut off or lost,
             \* or there was none because only the storing of secrets failed
  faults

server == <<panel, orphan, overlap>>
deployment == <<dep, mayExist, config, stored, server, untidy, faults>>

DeploymentState ==
  {"none", "pending", "waiting_ssh", "bootstrapping", "installing", "verifying",
   "succeeded", "failed"}

DInit ==
  /\ dep = "none" /\ mayExist = FALSE /\ config = 0 /\ stored = 0
  /\ panel = [svc |-> "none", creds |-> 0] /\ orphan = FALSE /\ overlap = FALSE
  /\ untidy = FALSE /\ faults = 0

Fault == faults < MaxFaults /\ faults' = faults + 1
At(l) == pc = l
\* A transition persisted through the callback, and the step it leads to.
Enter(state, l) == dep' = state /\ pc' = l
Raise == pc' = "except"

\* _stage_ip_verified.
StageIpVerified ==
  /\ cp = "ip_verified" /\ At("idle") /\ cp' = "deploying"
  /\ dep' = IF dep = "none" THEN "pending" ELSE dep
  /\ UNCHANGED <<pc, mayExist, config, stored, server, untidy, faults>>

\* deploy resumes from the persisted state; a failed deployment is not resumed.
StepOf(state) ==
  CASE state = "pending" -> "accept"
    [] state = "waiting_ssh" -> "wait"
    [] state = "bootstrapping" -> "bootstrap"
    [] state = "installing" -> "probe"
    [] state \in {"verifying", "succeeded"} -> "verify"
    [] OTHER -> "except"
FaultyResume ==
  /\ cp = "deploying" /\ At("idle")
  /\ pc' = IF dep = "succeeded" THEN "record" ELSE StepOf(dep)
  /\ mayExist' = (dep \in {"installing", "verifying", "succeeded"}) /\ config' = 0
  /\ UNCHANGED <<cp, dep, stored, server, untidy, faults>>
Resume ==
  /\ cp = "deploying" /\ At("idle") /\ pc' = StepOf(dep)
  /\ mayExist' = (dep \in {"installing", "verifying", "succeeded"}) /\ config' = 0
  /\ UNCHANGED <<cp, dep, stored, server, untidy, faults>>

Accept ==
  /\ At("accept") /\ Enter("waiting_ssh", "wait")
  /\ UNCHANGED <<cp, mayExist, config, stored, server, untidy, faults>>

\* SshReadinessProbe.wait, detect and bootstrap: they succeed or raise.
WaitForSsh ==
  /\ At("wait") /\ (Enter("bootstrapping", "bootstrap") \/ (Raise /\ UNCHANGED dep))
  /\ UNCHANGED <<cp, mayExist, config, stored, server, untidy, faults>>
Bootstrap ==
  /\ At("bootstrap") /\ (Enter("installing", "probe") \/ (Raise /\ UNCHANGED dep))
  /\ UNCHANGED <<cp, mayExist, config, stored, server, untidy, faults>>

\* verify_installation before installing: an error of any kind, a lost
\* connection too, reads as "not installed".
FaultyProbeInstallation ==
  /\ At("probe")
  /\ \/ panel.svc = "up" /\ Enter("verifying", "verify") /\ mayExist' = TRUE /\ UNCHANGED faults
     \/ panel.svc # "up" /\ pc' = "install" /\ UNCHANGED <<dep, mayExist, faults>>
     \/ panel.svc = "up" /\ Fault /\ pc' = "install" /\ UNCHANGED <<dep, mayExist>>
  /\ UNCHANGED <<cp, config, stored, server, untidy>>
ProbeInstallation ==
  /\ At("probe") /\ mayExist' = TRUE
  /\ \/ panel.svc = "up" /\ Enter("verifying", "verify") /\ UNCHANGED faults
     \/ panel.svc # "up" /\ pc' = "install" /\ UNCHANGED <<dep, faults>>
     \/ panel.svc = "up" /\ Fault /\ pc' = "install" /\ UNCHANGED dep
  /\ UNCHANGED <<cp, config, stored, server, untidy>>

\* An installer that completes (re)starts the service with new credentials.
Installed == [svc |-> "up", creds |-> panel.creds + 1]

\* install: it completes; it fails half way; or the connection is lost, or its
\* 900 seconds are over, and the installer goes on.
Install ==
  /\ At("install")
  /\ \/ Enter("verifying", "verify") /\ panel' = Installed /\ UNCHANGED <<orphan, overlap, faults>>
     \/ /\ Raise /\ panel' = [panel EXCEPT !.svc = IF @ = "none" THEN "down" ELSE @]
        /\ UNCHANGED <<dep, orphan, overlap, faults>>
     \/ Fault /\ Raise /\ orphan' = TRUE /\ overlap' = TRUE /\ UNCHANGED <<dep, panel>>
  /\ UNCHANGED <<cp, mayExist, config, stored, untidy>>
OrphanEnds ==
  /\ orphan /\ orphan' = FALSE /\ panel' \in {panel, Installed}
  /\ UNCHANGED <<cp, pc, dep, mayExist, config, stored, overlap, untidy, faults>>

\* verify_installation, read_configuration and the node API's status: each
\* raises on a lost connection, the first when the service is not up, the last
\* when it is not up with the token that was read.
Verify ==
  /\ At("verify") /\ pc' = (IF panel.svc = "up" THEN "read" ELSE "except")
  /\ UNCHANGED <<cp, deployment>>
Read ==
  /\ At("read") /\ pc' = "api" /\ config' = panel.creds
  /\ UNCHANGED <<cp, dep, mayExist, stored, server, untidy, faults>>
CallApi ==
  /\ At("api")
  /\ IF panel = [svc |-> "up", creds |-> config] THEN Enter("succeeded", "record")
                                               ELSE Raise /\ UNCHANGED dep
  /\ UNCHANGED <<cp, mayExist, config, stored, server, untidy, faults>>
LoseConnection ==
  /\ pc \in {"verify", "read", "api"} /\ Fault /\ Raise
  /\ UNCHANGED <<cp, dep, mayExist, config, stored, server, untidy>>

\* The orchestrator writes the secrets and commits NODE_VERIFIED.
RecordDeployment ==
  /\ At("record") /\ pc' = "idle" /\ cp' = "node_verified" /\ stored' = config
  /\ UNCHANGED <<dep, mayExist, config, server, untidy, faults>>
StoreFails ==
  /\ At("record") /\ Fault /\ pc' = "fail_job" /\ untidy' = TRUE
  /\ UNCHANGED <<cp, dep, mayExist, config, stored, server>>

\* The handler of deploy: FAILED is stored (SUCCEEDED stays), then a service
\* that may exist is stopped, and whatever that raises is swallowed.
StoreFailed ==
  /\ At("except")
  /\ Enter(IF dep \in {"succeeded", "failed"} THEN dep ELSE "failed",
           IF mayExist THEN "rollback" ELSE "fail_job")
  /\ UNCHANGED <<cp, mayExist, config, stored, server, untidy, faults>>
RollbackInstallation ==
  /\ At("rollback") /\ pc' = "fail_job"
  /\ \/ /\ panel' = [panel EXCEPT !.svc = IF @ = "up" THEN "down" ELSE @]
        /\ UNCHANGED <<untidy, faults>>
     \/ Fault /\ untidy' = TRUE /\ UNCHANGED panel
  /\ UNCHANGED <<cp, dep, mayExist, config, stored, orphan, overlap>>
FaultyFailJob ==
  /\ At("fail_job") /\ pc' = "idle" /\ UNCHANGED <<cp, deployment>>
FailJob ==
  /\ At("fail_job") /\ pc' = "idle" /\ cp' = "failed"
  /\ UNCHANGED deployment

Working ==
  {"accept", "wait", "bootstrap", "probe", "install", "verify", "read", "api",
   "record", "except", "rollback", "fail_job"}

\* The worker dies; an installer it was waiting for may go on.
CrashDeployment ==
  /\ pc \in Working /\ Fault /\ pc' = "idle"
  /\ orphan' \in {orphan, orphan \/ At("install")} /\ overlap' = (overlap \/ orphan')
  /\ untidy' = (untidy \/ pc \in {"except", "rollback"})
  /\ UNCHANGED <<cp, dep, mayExist, config, stored, panel>>

DStep ==
  \/ StageIpVerified \/ Resume \/ Accept \/ WaitForSsh \/ Bootstrap
  \/ ProbeInstallation \/ Install \/ Verify \/ Read \/ CallApi
  \/ RecordDeployment \/ StoreFailed \/ RollbackInstallation \/ FailJob
DNext == DStep \/ OrphanEnds \/ LoseConnection \/ StoreFails \/ CrashDeployment
=============================================================================
