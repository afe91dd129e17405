----------------------------- MODULE Replacement -----------------------------
(****************************************************************************)
(* The replacement workflow of one node (ReplacementOrchestrator,           *)
(* app/replacement/orchestrator.py): durable jobs, the lease that a         *)
(* resume() holds, the registry rows, and the outside world the stages act  *)
(* on - the cloud, the Master panel and the reachability probes.            *)
(*                                                                          *)
(* A step is one database transaction or one external call.  A worker is    *)
(* one execution of resume(); its pc names the next step, and the pc of a   *)
(* stage's first step is the checkpoint the stage handles.  Only live jobs  *)
(* are modelled (is_dry_run = FALSE).                                       *)
(****************************************************************************)
EXTENDS Naturals, FiniteSets, Checkpoints, NodeStates

CONSTANTS
  Jobs,          \* replacement jobs, 1..n, in the order they are triggered
  Workers,       \* concurrent executions of resume()
  MaxServer,     \* server ids are 0..MaxServer; 0 is the node's first server
  MaxAttempts,   \* max_replacement_attempts
  MaxTemporary,  \* max_temporary_servers
  Faults,        \* kinds of misfortune the environment may inflict
  MaxFaults,     \* how many of them in one behaviour
  None, Dead     \* "no value", and the token of a crashed holder

FaultKinds ==
  { "deferral",  \* a transient error, an inconclusive verdict or a pause
    "crash",     \* a worker dies between two steps
    "lapse",     \* a lease expires while its holder still runs
    "lost",      \* a candidate server disappears from the provider
    "cancel",    \* the operator cancels a job
    "disable",   \* the operator disables the node
    "rename" }   \* the operator renames the node

Servers == 0..MaxServer
Names == (0..MaxFaults) \X Jobs \X (0..MaxAttempts)

ASSUME ReplacementAssumption ==
  /\ Jobs \subseteq Nat \ {0}
  /\ MaxServer \in Nat /\ MaxAttempts \in Nat \ {0}
  /\ MaxTemporary \in Nat /\ MaxFaults \in Nat
  /\ Faults \subseteq FaultKinds
  /\ None \notin Workers /\ Dead \notin Workers /\ None # Dead
  /\ None \notin Nat /\ None \notin Names

VARIABLES
  job,      \* replacement_jobs rows
  dep,      \* deployments rows, by job and attempt
  lease,    \* holder of each job's unexpired workflow lease
  node,     \* nodes row: state, server of current_host, version of the name
  vps,      \* vps_instances rows: "current", "replacement", "deleted" or "none"
  cloud,    \* what the provider runs
  label,    \* the name each provider server was created with
  inflight, \* create requests whose outcome nobody has seen yet
  master,   \* the Master's node entry: server of its address, of its API token
  worker,   \* each resume(): pc and the locals that outlive a step
  admin,    \* whether set_node_operation_mode passed its active-job check
  observed, \* history: the servers found reachable by each kind of check
  faults    \* misfortunes so far

registry == <<job, dep, node, vps>>
outside == <<cloud, label, inflight, master>>
vars == <<job, dep, lease, node, vps, cloud, label, inflight, master, worker,
          admin, observed, faults>>

NoJob ==
  [ cp |-> "none", slot |-> FALSE, attempt |-> 0, forced |-> FALSE,
    orig |-> "FAILED", old |-> None, new |-> None, requested |-> FALSE,
    snap |-> None, ipVerified |-> FALSE, deployVerified |-> FALSE,
    masterUpdated |-> FALSE, masterVerified |-> FALSE, finalVerified |-> FALSE ]

NoDep == [st |-> "none", vps |-> None]

Asleep ==
  [ pc |-> "idle", job |-> None, srv |-> None, name |-> None, req |-> FALSE,
    room |-> FALSE, cp |-> "none", nst |-> "FAILED" ]

Init ==
  /\ job = [j \in Jobs |-> NoJob]
  /\ dep = [j \in Jobs |-> [a \in 0..MaxAttempts |-> NoDep]]
  /\ lease = [j \in Jobs |-> None]
  /\ node \in [state : {"HEALTHY", "FAILED"}, host : {0}, name : {0}]
  /\ vps = [s \in Servers |-> IF s = 0 THEN "current" ELSE "none"]
  /\ cloud = [s \in Servers |-> IF s = 0 THEN "live" ELSE "absent"]
  /\ label = [s \in Servers |-> None]
  /\ inflight = {}
  /\ master = [addr |-> 0, token |-> 0]
  /\ worker = [p \in Workers |-> Asleep]
  /\ admin = "idle"
  /\ observed = {}
  /\ faults = 0

------------------------------------------------------------------------------
(* Steps, transactions and exceptions.                                      *)

At(p, l) == worker[p].pc = l
JobOf(p) == job[worker[p].job]
DepOf(p) == dep[worker[p].job][JobOf(p).attempt]
Goto(p, l) == worker' = [worker EXCEPT ![p].pc = l]
GotoWith(p, l, s) == worker' = [worker EXCEPT ![p].pc = l, ![p].srv = s]

Misfortune(kind) ==
  kind \in Faults /\ faults < MaxFaults /\ faults' = faults + 1

\* try_acquire_workflow_lease: the job still has its slot, and its lease is
\* free, expired, or held under the caller's own token.
FaultyHoldable(p, j) == job[j].slot
Holdable(p, j) == job[j].slot /\ lease[j] \in {None, p}

\* The checkpoint a transaction moves its job to.
Target ==
  { <<"created", "provisioning">>,       <<"record", "provisioned">>,
    <<"gone", "temp_cleanup">>,          <<"boot", "checking_ip">>,
    <<"ip_ok", "ip_verified">>,          <<"ip_bad", "temp_cleanup">>,
    <<"ip_verified", "deploying">>,      <<"master_test", "master_updating">>,
    <<"master_record", "master_updated">>,
    <<"master_updated", "master_verifying">>,
    <<"verify_record", "master_verified">>,
    <<"master_verified", "final_check">>, <<"final_record", "final_verified">>,
    <<"final_verified", "old_vps_cleanup">>, <<"finish", "completed">> }

\* Steps that renew the lease in their transaction (_renew_lease_in_session).
Renewing ==
  { "record", "provisioned", "running", "boot", "checking_ip", "rounds",
    "temp_cleanup", "deploying", "node_verified", "master_updating",
    "master_verifying", "final_check", "old_vps_cleanup" }

\* Steps that call _require_new_vps, and those that call _require_deployment.
NeedsNew ==
  { "provisioned", "gone", "running", "checking_ip", "ip_verified",
    "deploying", "node_verified", "master_updating", "master_verifying",
    "final_check", "old_vps_cleanup", "finish" }
NeedsDep ==
  { "deploying", "node_verified", "master_updating", "master_verifying",
    "old_vps_cleanup", "finish" }
\* ... and _require_master_snapshot.
NeedsSnap == {"master_updating", "master_verifying", "rollback"}

\* OldVpsProtectionGuard.assert_can_delete.
GuardPasses(r, d) ==
  /\ r.new # r.old /\ vps[r.old] = "current" /\ vps[r.new] = "replacement"
  /\ d.vps = r.new /\ d.st = "succeeded"
  /\ r.ipVerified /\ r.deployVerified
  /\ r.masterUpdated /\ r.masterVerified /\ r.finalVerified

\* Steps that are one transaction after (or without) an external call.
Transactions ==
  Renewing \cup NeedsNew \cup NeedsSnap \cup {t[1] : t \in Target} \cup
  {"temp_record", "deploy_record"}

\* The transaction at worker p's pc commits instead of raising.
Commits(p) ==
  LET l == worker[p].pc  r == JobOf(p) IN
  /\ l \in Renewing => Holdable(p, worker[p].job)
  /\ l \in NeedsNew => r.new # None
  /\ l \in NeedsDep => DepOf(p) # NoDep
  /\ l \in NeedsSnap => r.snap # None
  /\ \A t \in Checkpoint : <<l, t>> \in Target => CanTransition(r.cp, t)
  /\ l = "old_vps_cleanup" => GuardPasses(r, DepOf(p))
  /\ l = "deploy_record" => CanTransition(worker[p].cp, "node_verified")
  /\ l = "finish" => CanMove(node.state, "HEALTHY")
  /\ l = "temp_record" /\ r.attempt < MaxAttempts
       => CanTransition(r.cp, "provisioning")

\* What the lease row holds after the transaction at p's pc.
KeepsLease(p) ==
  lease' = [lease EXCEPT ![worker[p].job] =
              IF worker[p].pc \in Renewing THEN p ELSE @]

\* The committed transaction of worker p: its job row becomes r.
Tx(p, r) ==
  /\ Commits(p)
  /\ job' = [job EXCEPT ![worker[p].job] = r]
  /\ KeepsLease(p)

\* A transaction that raises is rolled back whole; any exception that is not a
\* deferral fails the job, a lost lease (ReplacementBusyError) included.
Raises(p) == Goto(p, "fail") /\ UNCHANGED <<registry, outside, lease, admin, observed, faults>>
Refused(p) == worker[p].pc \in Transactions /\ ~Commits(p) /\ Raises(p)

\* A transient error defers the job, any other error fails it.
Interrupted(p) ==
  \/ Misfortune("deferral") /\ Goto(p, "release")
  \/ UNCHANGED faults /\ Goto(p, "fail")

------------------------------------------------------------------------------
(* resume(): lease, dispatch loop, deferral, failure, release.              *)

Acquire(p, j) ==
  /\ At(p, "idle") /\ Holdable(p, j)
  /\ lease' = [lease EXCEPT ![j] = p]
  /\ worker' = [worker EXCEPT ![p] = [Asleep EXCEPT !.pc = "loop", !.job = j]]
  /\ UNCHANGED <<registry, outside, admin, observed, faults>>

\* The loop reads the checkpoint in a session of its own; the stage it picks
\* does not read it again.  A stage starts with no locals.
Dispatch(p) ==
  LET cp == JobOf(p).cp IN
  /\ At(p, "loop")
  /\ worker' = [worker EXCEPT ![p] =
       [Asleep EXCEPT !.job = worker[p].job,
                      !.pc = IF cp \in Terminal THEN "release" ELSE cp]]
  /\ UNCHANGED <<registry, outside, lease, admin, observed, faults>>

\* Where a pause, a transient error or an inconclusive verdict can surface.
Deferrable ==
  { "loop", "find", "create", "ready", "boot", "rounds", "temp_delete",
    "master_get", "master_test", "master_put", "master_verify", "final_probe",
    "old_vps_cleanup", "old_delete", "rollback", "rollback_verify" }
Defer(p) ==
  /\ worker[p].pc \in Deferrable /\ Misfortune("deferral")
  /\ Goto(p, "release")
  /\ UNCHANGED <<registry, outside, lease, admin, observed>>

\* Where any other error can: provider, Master, probe, deployment artifacts, or
\* registry rows the stage requires (an inactive provider, a missing secret),
\* those of the last transaction, after the old server's deletion, included.
Fallible ==
  { "provisioning", "find", "create", "provisioned", "ready", "checking_ip",
    "rounds", "temp_cleanup", "temp_delete", "deploying", "deploy_record",
    "node_verified", "master_get", "master_test", "master_updating",
    "master_put", "master_verifying", "master_verify", "final_check",
    "final_probe", "old_vps_cleanup", "old_delete", "finish", "rollback",
    "rollback_verify" }
Break(p) == worker[p].pc \in Fallible /\ Raises(p)

FaultyFailJob(p) ==
  /\ At(p, "fail") /\ Goto(p, "release")
  /\ job' = [job EXCEPT ![worker[p].job] = Moved(@, "failed")]
  /\ UNCHANGED <<dep, vps, node, outside, lease, admin, observed, faults>>
FailJob(p) ==
  LET r == JobOf(p) IN
  /\ At(p, "fail") /\ Goto(p, "release")
  /\ \/ r.cp \in Terminal /\ UNCHANGED <<job, node>>
     \/ /\ r.cp \notin Terminal
        /\ job' = [job EXCEPT ![worker[p].job] = Moved(r, "failed")]
        /\ node' = [node EXCEPT !.state =
                      Restored(@, r.forced, r.masterUpdated, r.orig)]
  /\ UNCHANGED <<dep, vps, outside, lease, admin, observed, faults>>

\* release_workflow_lease: only a lease under the worker's own token.
FaultyRelease(p) ==
  /\ At(p, "release")
  /\ lease' = [lease EXCEPT ![worker[p].job] = None]
  /\ worker' = [worker EXCEPT ![p] = Asleep]
  /\ UNCHANGED <<registry, outside, admin, observed, faults>>
Release(p) ==
  /\ At(p, "release")
  /\ lease' = [lease EXCEPT ![worker[p].job] = IF @ = p THEN None ELSE @]
  /\ worker' = [worker EXCEPT ![p] = Asleep]
  /\ UNCHANGED <<registry, outside, admin, observed, faults>>

\* The process dies; its lease row stays until it expires.  A create request
\* that was on the wire may still be served.
Crash(p) ==
  /\ ~At(p, "idle") /\ Misfortune("crash")
  /\ lease' = [lease EXCEPT ![worker[p].job] = IF @ = p THEN Dead ELSE @]
  /\ worker' = [worker EXCEPT ![p] = Asleep]
  /\ \/ UNCHANGED inflight
     \/ /\ At(p, "create") /\ worker[p].room
        /\ inflight' = inflight \cup {worker[p].name}
  /\ UNCHANGED <<registry, cloud, label, master, admin, observed>>

Expire(j) ==
  /\ lease[j] = Dead /\ lease' = [lease EXCEPT ![j] = None]
  /\ UNCHANGED <<registry, outside, worker, admin, observed, faults>>

\* A lease shorter than the longest wait between two renewals.
Lapse(p) ==
  /\ ~At(p, "idle") /\ lease[worker[p].job] = p /\ Misfortune("lapse")
  /\ lease' = [lease EXCEPT ![worker[p].job] = None]
  /\ UNCHANGED <<registry, outside, worker, admin, observed>>

------------------------------------------------------------------------------
(* Provisioning a candidate.                                                *)

StageCreated(p) ==
  /\ At(p, "created") /\ Goto(p, "loop")
  /\ Tx(p, [Moved(JobOf(p), "provisioning") EXCEPT !.attempt = IF @ < 1 THEN 1 ELSE @])
  /\ UNCHANGED <<dep, node, vps, outside, admin, observed, faults>>

\* _replacement_server_name.
NameOf(j) == <<node.name, j, job[j].attempt>>

HasRoom == Cardinality({s \in Servers : vps[s] = "replacement"}) < MaxTemporary

StageProvisioning(p) ==
  LET r == JobOf(p)
      known == r.new # None /\ vps[r.new] # "deleted" IN
  /\ At(p, "provisioning")
  /\ \/ /\ known /\ CanTransition(r.cp, "provisioned")
        /\ job' = [job EXCEPT ![worker[p].job] = Moved(r, "provisioned")]
        /\ Goto(p, "loop")
     \/ known /\ ~CanTransition(r.cp, "provisioned") /\ Goto(p, "fail") /\ UNCHANGED job
     \/ /\ ~known /\ UNCHANGED job
        /\ worker' = [worker EXCEPT ![p].pc = "find", ![p].name = NameOf(worker[p].job),
                                    ![p].req = r.requested, ![p].room = HasRoom]
  /\ UNCHANGED <<dep, node, vps, lease, outside, admin, observed, faults>>

Candidates(n) == {s \in Servers : cloud[s] = "live" /\ label[s] = n}
Fresh == {s \in Servers : /\ cloud[s] = "absent"
                          /\ \A t \in Servers : cloud[t] = "absent" => s <= t}
Creates(s, n) ==
  /\ cloud' = [cloud EXCEPT ![s] = "live"]
  /\ label' = [label EXCEPT ![s] = n]

\* find_server_by_name, then (when nothing is found) the transaction that marks
\* the request.  A request made earlier is given the reconciliation grace
\* period, taken to outlast the provider's handling of it.
FindCandidate(p) ==
  LET n == worker[p].name  j == worker[p].job
      mayCreate == Candidates(n) = {} /\ ~(worker[p].req /\ n \in inflight) IN
  /\ At(p, "find")
  /\ \/ /\ \E s \in Candidates(n) : GotoWith(p, "record", s)
        /\ UNCHANGED <<job, lease>>
     \/ /\ mayCreate /\ Holdable(p, j) /\ Goto(p, "create")
        /\ job' = [job EXCEPT ![j].requested = TRUE]
        /\ lease' = [lease EXCEPT ![j] = p]
     \/ mayCreate /\ ~Holdable(p, j) /\ Goto(p, "fail") /\ UNCHANGED <<job, lease>>
     \/ /\ Candidates(n) = {} /\ ~mayCreate /\ Goto(p, "release")
        /\ UNCHANGED <<job, lease>>
  /\ UNCHANGED <<dep, node, vps, outside, admin, observed, faults>>

\* create_temporary: the capacity policy, then a POST whose answer may be lost.
\* The provider refuses a second live server of the same name.
CreateServer(p) ==
  LET n == worker[p].name IN
  /\ At(p, "create")
  /\ \/ /\ worker[p].room /\ Candidates(n) = {}
        /\ \E s \in Fresh : Creates(s, n) /\ GotoWith(p, "record", s)
        /\ UNCHANGED <<inflight, faults>>
     \/ /\ worker[p].room /\ Misfortune("deferral") /\ Goto(p, "release")
        /\ inflight' = inflight \cup {n} /\ UNCHANGED <<cloud, label>>
     \/ /\ ~worker[p].room \/ Candidates(n) # {}
        /\ Goto(p, "fail") /\ UNCHANGED <<cloud, label, inflight, faults>>
  /\ UNCHANGED <<registry, lease, master, admin, observed>>

\* The provider serves, or drops, a request whose client is gone.
Settle(n) ==
  /\ inflight' = inflight \ {n}
  /\ \/ Candidates(n) = {} /\ \E s \in Fresh : Creates(s, n)
     \/ UNCHANGED <<cloud, label>>
  /\ UNCHANGED <<registry, lease, master, worker, admin, observed, faults>>

\* The provider identity is persisted at once (insert or update of the row).
RecordServer(p) ==
  LET s == worker[p].srv IN
  /\ At(p, "record") /\ Goto(p, "loop")
  /\ Tx(p, [Moved(JobOf(p), "provisioned") EXCEPT !.new = s])
  /\ vps' = [vps EXCEPT ![s] = IF @ = "current" THEN @ ELSE "replacement"]
  /\ UNCHANGED <<dep, node, outside, admin, observed, faults>>

StageProvisioned(p) ==
  /\ At(p, "provisioned") /\ Tx(p, JobOf(p)) /\ GotoWith(p, "ready", JobOf(p).new)
  /\ UNCHANGED <<dep, node, vps, outside, admin, observed, faults>>

\* wait_until_ready: RUNNING, or ProviderNotFoundError.
ServerReady(p) ==
  /\ At(p, "ready")
  /\ Goto(p, IF cloud[worker[p].srv] = "live" THEN "running" ELSE "gone")
  /\ UNCHANGED <<registry, outside, lease, admin, observed, faults>>

CandidateGone(p) ==
  /\ At(p, "gone") /\ Tx(p, Moved(JobOf(p), "temp_cleanup")) /\ Goto(p, "loop")
  /\ vps' = [vps EXCEPT ![JobOf(p).new] = "deleted"]
  /\ UNCHANGED <<dep, node, outside, admin, observed, faults>>

RecordRunning(p) ==
  /\ At(p, "running") /\ Tx(p, JobOf(p)) /\ Goto(p, "boot")
  /\ UNCHANGED <<dep, node, vps, outside, admin, observed, faults>>

BootGrace(p) ==
  /\ At(p, "boot") /\ Tx(p, Moved(JobOf(p), "checking_ip")) /\ Goto(p, "loop")
  /\ UNCHANGED <<dep, node, vps, outside, admin, observed, faults>>

------------------------------------------------------------------------------
(* Verifying the candidate's address, and discarding a bad one.             *)

StageCheckingIp(p) ==
  /\ At(p, "checking_ip") /\ Tx(p, JobOf(p)) /\ GotoWith(p, "rounds", JobOf(p).new)
  /\ UNCHANGED <<dep, node, vps, outside, admin, observed, faults>>

\* _verify_candidate_reachability: a consensus of clean or of filtered rounds.
FaultyProbeRounds(p) ==
  /\ At(p, "rounds") /\ Tx(p, JobOf(p)) /\ Goto(p, "ip_ok")
  /\ UNCHANGED <<dep, node, vps, outside, admin, observed, faults>>
ProbeRounds(p) ==
  LET s == worker[p].srv IN
  /\ At(p, "rounds") /\ Tx(p, JobOf(p))
  /\ \/ /\ cloud[s] = "live" /\ Goto(p, "ip_ok")
        /\ observed' = observed \cup {<<"ip", s>>}
     \/ Goto(p, "ip_bad") /\ UNCHANGED observed
  /\ UNCHANGED <<dep, node, vps, outside, admin, faults>>

PassIp(p) ==
  /\ At(p, "ip_ok") /\ Goto(p, "loop")
  /\ Tx(p, [Moved(JobOf(p), "ip_verified") EXCEPT !.ipVerified = TRUE])
  /\ UNCHANGED <<dep, node, vps, outside, admin, observed, faults>>

\* A wrong turn: the verdict of a filtered address is stored as a pass.
FaultyRejectIp(p) ==
  /\ At(p, "ip_bad") /\ Goto(p, "loop")
  /\ job' = [job EXCEPT ![worker[p].job] =
               [Moved(@, "ip_verified") EXCEPT !.ipVerified = TRUE]]
  /\ UNCHANGED <<dep, node, vps, lease, outside, admin, observed, faults>>
HastyRejectIp(p) ==
  /\ At(p, "ip_bad") /\ Goto(p, "loop")
  /\ Tx(p, [Moved(JobOf(p), "temp_cleanup") EXCEPT !.ipVerified = TRUE])
  /\ UNCHANGED <<dep, node, vps, outside, admin, observed, faults>>
RejectIp(p) ==
  /\ At(p, "ip_bad") /\ Goto(p, "loop") /\ Tx(p, Moved(JobOf(p), "temp_cleanup"))
  /\ UNCHANGED <<dep, node, vps, outside, admin, observed, faults>>

StageTempCleanup(p) ==
  LET s == JobOf(p).new IN
  /\ At(p, "temp_cleanup") /\ Tx(p, JobOf(p))
  /\ \/ s # None /\ vps[s] # "deleted" /\ GotoWith(p, "temp_delete", s)
     \/ (s # None => vps[s] = "deleted") /\ Goto(p, "temp_record")
  /\ UNCHANGED <<dep, node, vps, outside, admin, observed, faults>>

Deletes(s) == cloud' = [cloud EXCEPT ![s] = "deleted"]

\* Only a server that still carries the job's current deterministic name.
FaultyDeleteTemporary(p) ==
  /\ At(p, "temp_delete") /\ Goto(p, "temp_record")
  /\ UNCHANGED <<registry, lease, outside, admin, observed, faults>>
DeleteTemporary(p) ==
  LET s == worker[p].srv
      ours == label[s] = NameOf(worker[p].job) IN
  /\ At(p, "temp_delete")
  /\ \/ cloud[s] # "live" /\ Goto(p, "temp_record") /\ UNCHANGED <<cloud, faults>>
     \/ cloud[s] = "live" /\ ours /\ Deletes(s) /\ Goto(p, "temp_record") /\ UNCHANGED faults
     \/ cloud[s] = "live" /\ ours /\ Deletes(s) /\ Goto(p, "release") /\ Misfortune("deferral")
     \/ cloud[s] = "live" /\ ~ours /\ Goto(p, "fail") /\ UNCHANGED <<cloud, faults>>
  /\ UNCHANGED <<registry, lease, label, inflight, master, admin, observed>>

\* The next attempt, or the failure of an exhausted job (which commits first).
FaultyRecordTempCleanup(p) ==
  LET r == [JobOf(p) EXCEPT !.new = None, !.requested = FALSE]
      exhausted == r.attempt > MaxAttempts IN
  /\ At(p, "temp_record") /\ Goto(p, IF exhausted THEN "fail" ELSE "loop")
  /\ job' = [job EXCEPT ![worker[p].job] =
               IF exhausted THEN r
               ELSE [Moved(r, "provisioning") EXCEPT !.attempt = @ + 1]]
  /\ vps' = [s \in Servers |-> IF s = JobOf(p).new THEN "deleted" ELSE vps[s]]
  /\ UNCHANGED <<dep, node, lease, outside, admin, observed, faults>>
RecordTempCleanup(p) ==
  LET r == [JobOf(p) EXCEPT !.new = None, !.requested = FALSE]
      exhausted == r.attempt >= MaxAttempts IN
  /\ At(p, "temp_record") /\ Goto(p, IF exhausted THEN "fail" ELSE "loop")
  /\ Tx(p, IF exhausted THEN r
           ELSE [Moved(r, "provisioning") EXCEPT !.attempt = @ + 1])
  /\ vps' = [s \in Servers |-> IF s = JobOf(p).new THEN "deleted" ELSE vps[s]]
  /\ UNCHANGED <<dep, node, outside, admin, observed, faults>>

------------------------------------------------------------------------------
(* Deploying 3X-UI on the verified candidate.                               *)

StageIpVerified(p) ==
  LET j == worker[p].job  r == JobOf(p) IN
  /\ At(p, "ip_verified") /\ Goto(p, "loop") /\ Tx(p, Moved(r, "deploying"))
  /\ dep' = [dep EXCEPT ![j][r.attempt] =
               IF @ = NoDep THEN [st |-> "pending", vps |-> r.new] ELSE @]
  /\ node' = [node EXCEPT !.state = IF @ = "REPLACING" THEN "DEPLOYING" ELSE @]
  /\ UNCHANGED <<vps, outside, admin, observed, faults>>

\* The session stays open during the deployment: job, node and deployment are
\* not read again before the final commit, so their values here are remembered
\* (that of the deployment by the step it leads to).
Resumed(st) ==
  CASE st = "pending" -> "deploy" [] st = "succeeded" -> "redeploy" [] OTHER -> "deploy_failed"
StageDeploying(p) ==
  LET r == JobOf(p) IN
  /\ At(p, "deploying") /\ Tx(p, r)
  /\ worker' = [worker EXCEPT ![p].pc = Resumed(DepOf(p).st), ![p].srv = r.new,
                              ![p].cp = r.cp, ![p].nst = node.state]
  /\ UNCHANGED <<dep, node, vps, outside, admin, observed, faults>>

DeployEnds(p, st) ==
  dep' = [dep EXCEPT ![worker[p].job][JobOf(p).attempt].st = st]
RenewIfHoldable(p) ==
  lease' = [lease EXCEPT ![worker[p].job] = IF Holdable(p, worker[p].job) THEN p ELSE @]

\* DeploymentService.deploy: "pending" stands for its five resumable states,
\* each entered in a transaction that renews the lease.  Whoever lost the lease
\* still writes the last state he reached, whatever the row holds by now.
\* A deployment that had already succeeded is verified again, with no
\* transaction; one that had failed stays so.
Deploy(p) ==
  LET up == cloud[worker[p].srv] = "live" IN
  /\ RenewIfHoldable(p)
  /\ \/ At(p, "deploy") /\ up /\ DeployEnds(p, "succeeded")
        /\ Goto(p, IF Holdable(p, worker[p].job) THEN "deploy_record" ELSE "fail")
     \/ At(p, "deploy") /\ DeployEnds(p, "failed") /\ Goto(p, "fail")
     \/ worker[p].pc \in {"redeploy", "deploy_failed"} /\ UNCHANGED dep /\ Goto(p, "fail")
  /\ UNCHANGED <<job, node, vps, outside, admin, observed, faults>>
Reverify(p) ==
  /\ At(p, "redeploy") /\ cloud[worker[p].srv] = "live" /\ Goto(p, "deploy_record")
  /\ UNCHANGED <<job, dep, node, vps, lease, outside, admin, observed, faults>>

\* The final commit writes the changed columns of the rows read before the
\* deployment: a cancellation in between loses its checkpoint, not its slot.
RecordDeployment(p) ==
  /\ At(p, "deploy_record") /\ Commits(p) /\ Goto(p, "loop")
  /\ job' = [job EXCEPT ![worker[p].job].cp = "node_verified",
                        ![worker[p].job].deployVerified = TRUE]
  /\ node' = [node EXCEPT !.state =
                IF worker[p].nst = "DEPLOYING" THEN "VERIFYING" ELSE @]
  /\ UNCHANGED <<dep, vps, lease, outside, admin, observed, faults>>

------------------------------------------------------------------------------
(* Switching the Master to the candidate, and back.                         *)

StageNodeVerified(p) ==
  /\ At(p, "node_verified") /\ Tx(p, JobOf(p)) /\ GotoWith(p, "master_get", JobOf(p).new)
  /\ UNCHANGED <<dep, node, vps, outside, admin, observed, faults>>

\* get_node, then the rollback snapshot, taken once per job.
SnapshotMaster(p) ==
  /\ At(p, "master_get") /\ Goto(p, "master_test")
  /\ job' = [job EXCEPT ![worker[p].job].snap = IF @ = None THEN master.addr ELSE @]
  /\ UNCHANGED <<dep, node, vps, lease, outside, admin, observed, faults>>

TestMaster(p) ==
  /\ At(p, "master_test") /\ cloud[worker[p].srv] = "live"
  /\ Tx(p, Moved(JobOf(p), "master_updating")) /\ Goto(p, "loop")
  /\ UNCHANGED <<dep, node, vps, outside, admin, observed, faults>>

StageMasterUpdating(p) ==
  /\ At(p, "master_updating") /\ Tx(p, JobOf(p)) /\ GotoWith(p, "master_put", JobOf(p).new)
  /\ UNCHANGED <<dep, node, vps, outside, admin, observed, faults>>

Serving(s) == [addr |-> s, token |-> s]

\* update_node is a POST and a GET: the entry may have changed whatever the
\* call reports.
UpdateMaster(p) ==
  /\ At(p, "master_put") /\ master' = Serving(worker[p].srv)
  /\ \/ Goto(p, "master_record") /\ UNCHANGED faults
     \/ Interrupted(p)
  /\ UNCHANGED <<registry, cloud, label, inflight, lease, admin, observed>>

RecordMasterUpdate(p) ==
  /\ At(p, "master_record") /\ Goto(p, "loop")
  /\ Tx(p, [Moved(JobOf(p), "master_updated") EXCEPT !.masterUpdated = TRUE])
  /\ UNCHANGED <<dep, node, vps, outside, admin, observed, faults>>

StageMasterUpdated(p) ==
  /\ At(p, "master_updated") /\ Goto(p, "loop") /\ Tx(p, Moved(JobOf(p), "master_verifying"))
  /\ UNCHANGED <<dep, node, vps, outside, admin, observed, faults>>

StageMasterVerifying(p) ==
  /\ At(p, "master_verifying") /\ Tx(p, JobOf(p)) /\ GotoWith(p, "master_verify", JobOf(p).new)
  /\ UNCHANGED <<dep, node, vps, outside, admin, observed, faults>>

\* verify_node: the entry reads back as written and its panel is online, or
\* MasterNodeVerificationError, which rolls the entry back.
VerifyMaster(p) ==
  LET s == worker[p].srv IN
  /\ At(p, "master_verify")
  /\ \/ master = Serving(s) /\ cloud[s] = "live" /\ Goto(p, "verify_record")
     \/ Goto(p, "rollback")
  /\ UNCHANGED <<registry, lease, outside, admin, observed, faults>>

RecordMasterVerified(p) ==
  /\ At(p, "verify_record") /\ Goto(p, "loop")
  /\ Tx(p, [Moved(JobOf(p), "master_verified") EXCEPT !.masterVerified = TRUE])
  /\ UNCHANGED <<dep, node, vps, outside, admin, observed, faults>>

StageMasterVerified(p) ==
  /\ At(p, "master_verified") /\ Goto(p, "loop") /\ Tx(p, Moved(JobOf(p), "final_check"))
  /\ UNCHANGED <<dep, node, vps, outside, admin, observed, faults>>

StageFinalCheck(p) ==
  /\ At(p, "final_check") /\ Tx(p, JobOf(p)) /\ GotoWith(p, "final_probe", JobOf(p).new)
  /\ UNCHANGED <<dep, node, vps, outside, admin, observed, faults>>

\* One reachability check of the new address; UNREACHABLE rolls the Master back.
FaultyFinalProbe(p) ==
  /\ At(p, "final_probe") /\ Goto(p, "final_record")
  /\ UNCHANGED <<registry, lease, outside, admin, observed, faults>>
FinalProbe(p) ==
  LET s == worker[p].srv IN
  /\ At(p, "final_probe")
  /\ \/ /\ cloud[s] = "live" /\ Goto(p, "final_record")
        /\ observed' = observed \cup {<<"final", s>>}
     \/ Goto(p, "rollback") /\ UNCHANGED observed
  /\ UNCHANGED <<registry, lease, outside, admin, faults>>

RecordFinal(p) ==
  /\ At(p, "final_record") /\ Goto(p, "loop")
  /\ Tx(p, [Moved(JobOf(p), "final_verified") EXCEPT !.finalVerified = TRUE])
  /\ UNCHANGED <<dep, node, vps, outside, admin, observed, faults>>

\* _rollback_master: the snapshot, with the API token of the registered
\* credential - that of the server current_host names.
Rollback(p) ==
  /\ At(p, "rollback") /\ Commits(p)
  /\ master' = [addr |-> JobOf(p).snap, token |-> node.host]
  /\ \/ Goto(p, "rollback_verify") /\ UNCHANGED faults
     \/ Interrupted(p)
  /\ UNCHANGED <<registry, cloud, label, inflight, lease, admin, observed>>

\* Verified or not, the stage now fails the job - unless verify_node is
\* transient (Defer): then the deferral hides the verdict that caused it.
RollbackVerified(p) ==
  /\ At(p, "rollback_verify") /\ Goto(p, "fail")
  /\ UNCHANGED <<registry, outside, lease, admin, observed, faults>>

------------------------------------------------------------------------------
(* Deleting the old server and completing.                                  *)

StageFinalVerified(p) ==
  /\ At(p, "final_verified") /\ Goto(p, "loop") /\ Tx(p, Moved(JobOf(p), "old_vps_cleanup"))
  /\ UNCHANGED <<dep, node, vps, outside, admin, observed, faults>>

StageOldVpsCleanup(p) ==
  /\ At(p, "old_vps_cleanup") /\ Tx(p, JobOf(p)) /\ GotoWith(p, "old_delete", JobOf(p).old)
  /\ UNCHANGED <<dep, node, vps, outside, admin, observed, faults>>

DeleteOldVps(p) ==
  LET s == worker[p].srv IN
  /\ At(p, "old_delete")
  /\ \/ cloud[s] # "live" /\ Goto(p, "finish") /\ UNCHANGED <<cloud, faults>>
     \/ cloud[s] = "live" /\ Deletes(s) /\ Goto(p, "finish") /\ UNCHANGED faults
     \/ cloud[s] = "live" /\ Deletes(s) /\ Goto(p, "release") /\ Misfortune("deferral")
  /\ UNCHANGED <<registry, lease, label, inflight, master, admin, observed>>

FaultyFinish(p) ==
  /\ At(p, "finish") /\ Goto(p, "loop") /\ Tx(p, Moved(JobOf(p), "completed"))
  /\ vps' = [vps EXCEPT ![JobOf(p).old] = "deleted"]
  /\ node' = [node EXCEPT !.state = "HEALTHY", !.host = JobOf(p).new]
  /\ UNCHANGED <<dep, outside, admin, observed, faults>>
Finish(p) ==
  LET r == JobOf(p) IN
  /\ At(p, "finish") /\ Goto(p, "loop") /\ Tx(p, Moved(r, "completed"))
  /\ vps' = [vps EXCEPT ![r.old] = "deleted", ![r.new] = "current"]
  /\ node' = [node EXCEPT !.state = "HEALTHY", !.host = r.new]
  /\ UNCHANGED <<dep, outside, admin, observed, faults>>

------------------------------------------------------------------------------
(* The operator, monitoring and the cloud.                                  *)

NoActiveJob == \A j \in Jobs : ~job[j].slot

\* trigger: one transaction under the admission lock.
Trigger(j, s, forced) ==
  /\ job[j].cp = "none" /\ \A i \in Jobs : i < j => job[i].cp # "none"
  /\ NoActiveJob /\ vps[s] = "current"
  /\ IF forced THEN CanForce(node.state) ELSE node.state = "FAILED"
  /\ job' = [job EXCEPT ![j] =
       [NoJob EXCEPT !.cp = "created", !.slot = TRUE, !.forced = forced,
                     !.orig = IF forced THEN node.state ELSE "FAILED", !.old = s]]
  /\ node' = [node EXCEPT !.state = "REPLACING"]
  /\ UNCHANGED <<dep, vps, lease, outside, worker, admin, observed, faults>>

\* cancel: refused once the Master update has been recorded.
Cancel(j) ==
  LET r == job[j] IN
  /\ r.cp \in Running /\ ~r.masterUpdated /\ Misfortune("cancel")
  /\ job' = [job EXCEPT ![j] = Moved(r, "cancelled")]
  /\ node' = [node EXCEPT !.state = Restored(@, r.forced, FALSE, r.orig)]
  /\ UNCHANGED <<dep, vps, lease, outside, worker, admin, observed>>

\* set_node_operation_mode(DISABLED): no active job is read first, the state is
\* written by a later statement.
CheckDisable ==
  /\ admin = "idle" /\ NoActiveJob /\ Misfortune("disable")
  /\ admin' = "disabling"
  /\ UNCHANGED <<registry, lease, outside, worker, observed>>
CommitDisable ==
  /\ admin = "disabling" /\ admin' = "idle"
  /\ node' = [node EXCEPT !.state = "DISABLED"]
  /\ UNCHANGED <<job, dep, vps, lease, outside, worker, observed, faults>>
Enable ==
  /\ admin = "idle" /\ NoActiveJob /\ node.state = "DISABLED"
  /\ node' = [node EXCEPT !.state = "UNKNOWN"]
  /\ UNCHANGED <<job, dep, vps, lease, outside, worker, admin, observed, faults>>

\* rename_node has no active-job check.
Rename ==
  /\ Misfortune("rename") /\ node' = [node EXCEPT !.name = @ + 1]
  /\ UNCHANGED <<job, dep, vps, lease, outside, worker, admin, observed>>

\* NodeHealthCalculator moves a node only between the monitored states, by the
\* row as it is (a verdict on a row read earlier is Monitoring's).
MonitorNode(target) ==
  /\ node.state \in Monitored /\ target \in Monitored
  /\ <<node.state, target>> \in NodeEdges
  /\ node' = [node EXCEPT !.state = target]
  /\ UNCHANGED <<job, dep, vps, lease, outside, worker, admin, observed, faults>>

LoseServer(s) ==
  /\ cloud[s] = "live" /\ vps[s] # "current" /\ Misfortune("lost")
  /\ cloud' = [cloud EXCEPT ![s] = "lost"]
  /\ UNCHANGED <<registry, lease, label, inflight, master, worker, admin, observed>>

------------------------------------------------------------------------------

Provisioning(p) ==
  \/ StageCreated(p) \/ StageProvisioning(p) \/ FindCandidate(p) \/ CreateServer(p)
  \/ RecordServer(p) \/ StageProvisioned(p) \/ ServerReady(p) \/ CandidateGone(p)
  \/ RecordRunning(p) \/ BootGrace(p)

Checking(p) ==
  \/ StageCheckingIp(p) \/ ProbeRounds(p) \/ PassIp(p) \/ RejectIp(p)
  \/ StageTempCleanup(p) \/ DeleteTemporary(p) \/ RecordTempCleanup(p)

Deploying(p) ==
  StageIpVerified(p) \/ StageDeploying(p) \/ Deploy(p) \/ Reverify(p)
  \/ RecordDeployment(p)

Switching(p) ==
  \/ StageNodeVerified(p) \/ SnapshotMaster(p) \/ TestMaster(p)
  \/ StageMasterUpdating(p) \/ UpdateMaster(p) \/ RecordMasterUpdate(p)
  \/ StageMasterUpdated(p) \/ StageMasterVerifying(p) \/ VerifyMaster(p)
  \/ RecordMasterVerified(p) \/ StageMasterVerified(p)
  \/ StageFinalCheck(p) \/ FinalProbe(p) \/ RecordFinal(p)
  \/ Rollback(p) \/ RollbackVerified(p)

Cleaning(p) ==
  StageFinalVerified(p) \/ StageOldVpsCleanup(p) \/ DeleteOldVps(p) \/ Finish(p)

Resuming(p) ==
  \/ Dispatch(p) \/ Defer(p) \/ Break(p) \/ Refused(p) \/ FailJob(p) \/ Release(p)

Step(p) ==
  \/ Resuming(p) \/ Provisioning(p) \/ Checking(p) \/ Deploying(p)
  \/ Switching(p) \/ Cleaning(p)

Operator ==
  \/ \E j \in Jobs, s \in Servers, forced \in BOOLEAN : Trigger(j, s, forced)
  \/ \E j \in Jobs : Cancel(j)
  \/ CheckDisable \/ CommitDisable \/ Enable \/ Rename

Environment ==
  \/ \E p \in Workers : Crash(p) \/ Lapse(p)
  \/ \E j \in Jobs : Expire(j)
  \/ \E n \in inflight : Settle(n)
  \/ \E s \in Servers : LoseServer(s)
  \/ \E target \in Monitored : MonitorNode(target)

Next ==
  \/ \E p \in Workers : Step(p) \/ \E j \in Jobs : Acquire(p, j)
  \/ Operator
  \/ Environment

Spec == Init /\ [][Next]_vars

\* The worker's scheduler keeps calling resume() on active jobs, a running step
\* ends, leases expire and the provider settles the requests it received.
Fairness ==
  /\ \A p \in Workers : WF_vars(Step(p))
  /\ \A j \in Jobs : WF_vars(\E p \in Workers : Acquire(p, j)) /\ WF_vars(Expire(j))
  /\ WF_vars(\E n \in inflight : Settle(n))

FairSpec == Spec /\ Fairness

------------------------------------------------------------------------------
(* Properties.                                                              *)

StepNames ==
  Checkpoint \cup
  { "idle", "loop", "release", "fail", "find", "create", "record", "ready",
    "gone", "running", "boot", "rounds", "ip_ok", "ip_bad", "temp_delete",
    "temp_record", "deploy", "redeploy", "deploy_failed", "deploy_record", "master_get", "master_test",
    "master_put", "master_record", "master_verify", "verify_record",
    "final_probe", "final_record", "rollback", "rollback_verify",
    "old_delete", "finish" }

MaybeServer == Servers \cup {None}

JobRow ==
  [ cp : Checkpoint \cup {"none"}, slot : BOOLEAN, attempt : 0..MaxAttempts,
    forced : BOOLEAN, orig : Monitored, old : MaybeServer, new : MaybeServer,
    requested : BOOLEAN, snap : MaybeServer, ipVerified : BOOLEAN,
    deployVerified : BOOLEAN, masterUpdated : BOOLEAN, masterVerified : BOOLEAN,
    finalVerified : BOOLEAN ]

Deployment == [st : {"none", "pending", "succeeded", "failed"}, vps : MaybeServer]

Execution ==
  [ pc : StepNames, job : Jobs \cup {None}, srv : MaybeServer,
    name : Names \cup {None}, req : BOOLEAN, room : BOOLEAN,
    cp : Checkpoint \cup {"none"}, nst : NodeState ]

JobsTyped ==
  /\ job \in [Jobs -> JobRow]
  /\ dep \in [Jobs -> [0..MaxAttempts -> Deployment]]
  /\ lease \in [Jobs -> Workers \cup {None, Dead}]

NodeTyped == node \in [state : NodeState, host : Servers, name : 0..MaxFaults]

OutsideTyped ==
  /\ vps \in [Servers -> {"none", "current", "replacement", "deleted"}]
  /\ cloud \in [Servers -> {"absent", "live", "deleted", "lost"}]
  /\ label \in [Servers -> Names \cup {None}]
  /\ inflight \subseteq Names
  /\ master \in [addr : Servers, token : Servers]
  /\ observed \subseteq {"ip", "final"} \X Servers
  /\ admin \in {"idle", "disabling"}
  /\ faults \in 0..MaxFaults

WorkersTyped ==
  /\ worker \in [Workers -> Execution]
  /\ \A p \in Workers : worker[p].pc # "idle" => worker[p].job \in Jobs

\* The shape of the state; an execution inside resume() has a job.
TypeOK == JobsTyped /\ NodeTyped /\ OutsideTyped /\ WorkersTyped

\* One execution per job: whoever is inside resume() holds the job's lease.
LeaseMutex ==
  \A p, q \in Workers :
    /\ ~At(p, "idle") => lease[worker[p].job] = p
    /\ ~At(p, "idle") /\ ~At(q, "idle") /\ p # q => worker[p].job # worker[q].job

\* A lease leaves its holder by the holder's own release, its death or its
\* expiry: no acquire, renewal or release of another execution takes it away,
\* however late (release_workflow_lease compares the token).
LeaseTakenByNobody ==
  [][\A j \in Jobs, p \in Workers :
       lease[j] = p /\ lease'[j] # p
         => faults' > faults \/ (At(p, "release") /\ worker'[p].pc = "idle")]_vars

\* The replacement of job j is proven: its server exists, its address passed
\* the multi-round check and the final one, 3X-UI was deployed on that very
\* server, and the Master switch to it was recorded and verified.
Proven(j) ==
  LET n == job[j].new IN
  /\ n # None /\ n # job[j].old /\ cloud[n] # "deleted"
  /\ {<<"ip", n>>, <<"final", n>>} \subseteq observed
  /\ dep[j][job[j].attempt] = [st |-> "succeeded", vps |-> n]
  /\ job[j].masterUpdated /\ job[j].masterVerified

\* The workflow deletes a node's current server only for a job whose
\* replacement is proven at that moment (docs/REPLACEMENT.md, "Old VPS hard
\* gate"): the durable gates are read a transaction before the delete call.
OldVpsDeletedOnlyWhenProven ==
  [][\A s \in Servers :
       cloud[s] = "live" /\ cloud'[s] = "deleted" /\ vps[s] = "current"
         => \E j \in Jobs : job[j].old = s /\ Proven(j)]_vars

\* A candidate whose verification has been recorded is never discarded by
\* temporary cleanup, whatever resumes, crashes or repeats: the money and the
\* clean address it took to get it are not thrown away.
VerifiedNeverDiscarded ==
  [][\A s \in Servers, j \in Jobs :
       cloud[s] = "live" /\ cloud'[s] = "deleted" /\ vps[s] = "replacement"
         => ~(job[j].new = s /\ job[j].ipVerified)]_vars

\* However often creates are lost, repeated or resumed, a job never has two
\* live servers besides the current one (docs/ARCHITECTURE.md: lookup before
\* create "does not automatically create a duplicate VPS").
OneTemporaryPerJob ==
  \A s, t \in Servers :
    /\ cloud[s] = "live" /\ cloud[t] = "live"
    /\ label[s] # None /\ label[t] # None /\ label[s][2] = label[t][2]
    => s = t

\* A rename in the create window is the one way to a second server (the name is
\* recomputed from nodes.name, rename_node does not look for an active job), and
\* each costs one at most, whatever crashes, attempts and cleanups follow: what
\* lookup before create no longer finds is not multiplied by retries.
DuplicatesRenamed ==
  \A j \in Jobs :
    Cardinality({s \in Servers : cloud[s] = "live" /\ label[s] # None /\ label[s][2] = j})
      <= 1 + node.name

\* The Master only ever points at a server that has been in service before, or
\* at one that passed the address check and has a verified deployment.
MasterTargetProven ==
  \/ master.addr = 0
  \/ /\ <<"ip", master.addr>> \in observed
     /\ \E j \in Jobs, a \in 0..MaxAttempts :
          dep[j][a] = [st |-> "succeeded", vps |-> master.addr]

\* A node is in a workflow state only while a job still owns it: no exit of a
\* job leaves it REPLACING, DEPLOYING or VERIFYING, which neither monitoring
\* nor a new trigger can leave.
NoStrandedNode == node.state \in InWorkflow => \E j \in Jobs : job[j].slot

\* The registry names one server in service: the node's current_host is the one
\* row with role CURRENT, the row the next trigger takes for the old server.
RegistryAgrees == {s \in Servers : vps[s] = "current"} = {node.host}

\* A terminal checkpoint is final (app/replacement/state.py: no edge leaves it).
TerminalIsFinal ==
  [][\A j \in Jobs : job[j].cp \in Terminal => job'[j].cp = job[j].cp]_vars

\* A job that ends unsuccessfully leaves its old server alone ("Replacement
\* workflow failed; old VPS was not deleted", orchestrator.py:1185).
UnsuccessfulKeepsOld ==
  [][\A j \in Jobs :
       job[j].cp \in Running /\ job'[j].cp \in {"failed", "cancelled"}
         => cloud[job[j].old] # "deleted"]_vars

\* The Master never points at a server the workflow has deleted: a rollback,
\* even one whose outcome is unknown, rules out the deletion of the old server
\* (docs/REPLACEMENT.md, "Master 3X-UI switch").
MasterTargetKept == cloud[master.addr] # "deleted"

\* Every active job ends: crashes, expired leases and finitely many deferrals
\* delay it but never leave it with nobody to resume it.
JobEnds == \A j \in Jobs : job[j].slot ~> ~job[j].slot
=============================================================================
