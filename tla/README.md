# A TLA+ model of aso-node-recovery

aso-node-recovery watches 3X-UI proxy nodes, and when the address of one is
filtered it buys a new server, checks its address, installs 3X-UI on it, points
the Master panel at it and deletes the old server. The hard part is the
replacement workflow: a durable, resumable saga over a database, a cloud
provider and a panel, none of which takes part in a common transaction. This
directory models that saga, and around it the admission of jobs, monitoring,
notifications, the registry and its setup wizards; it checks them with TLC on
small instances, and proves part of it with TLAPS for every instance.

Paths below are relative to the repository; `orchestrator.py:404` is
`app/replacement/orchestrator.py`, line 404.

## 1. Inventory

| Part | State it keeps | Operations | Hard behaviour |
| --- | --- | --- | --- |
| Replacement workflow (`replacement/orchestrator.py`) | `replacement_jobs`, `deployments`, `vps_instances`, `nodes` rows; a lease per job; locals of a running `resume()` | `trigger`, `resume` (15 stages), `cancel`, `list_status` | crash between an external call and its commit; two executions of one job; errors that defer against errors that fail; values read before a long await |
| Checkpoints (`replacement/state.py`) | `checkpoint`, `active_slot` | `can_transition`, `transition` | terminal states must free the slot and be final |
| Node states (`services/node_state.py`) | `nodes.state` | transition, forced entry and restoration | workflow, monitoring and operator write one column |
| Old VPS guard (`replacement/safety.py`) | none; reads the durable gates | `assert_can_delete` | stale gates |
| Admission (`replacement/locks.py`, `trigger`) | advisory lock, `request_key`, unique `(node, active_slot)` | `trigger` | several processes, several nodes, the limit of temporary servers |
| Reachability (`replacement/reachability.py`, `monitoring/check_host.py`, `orchestrator.py:585-698`) | counters of one verification | quorum of probes, consensus of rounds | inconclusive rounds, unavailable checker |
| Providers (`providers/*`) | none; the cloud keeps the servers | create, find by name, get, delete, wait until ready | an answer that is lost after the effect |
| Deployment (`deployment/*`) | `deployments.state` | `deploy`, `rollback` | resumption in the middle, an error while rolling back |
| Master client (`master/*`) | none; the panel keeps the node entry | get, test, update, verify | POST with an unknown outcome, routes to the panel |
| Workers (`workers/*`) | none | cycles of monitoring and of replacement | long cycles, leases |
| Monitoring (`monitoring/health.py`, `workers/monitoring.py`) | counters, monitoring lease | `run_cycle`, `run_node`, `apply` | a stale result, lost updates of a row read without a lock, thresholds |
| Control service (`control/service.py`, `services/operational_settings.py`) | audit events, settings, event cursor | trigger, cancel, mode, pause, settings | commands against a running workflow |
| Registry management (`registry/*`, `core/secrets.py`, `deployment/host_keys.py`) | providers, nodes, credentials, secret files, known_hosts | rename, rotate, add, remove, trust | check then act; file and row out of step |
| Setup wizards (`bot/registry_ui.py`) | one wizard per operator, in memory | buttons, messages, signed confirmations | old buttons, stages entered twice, restarts, a worker that writes the same rows |
| Notifier (`bot/notifier.py`) | event cursor | `run_once` | redelivery after a crash |
| Other bot screens, API, diagnostics, configuration, backup, scripts | — | user interface, probes, files | not part of the core |

Interactions: the worker process calls `resume()` for every active job of
`list_active`; the bot process may call the same `resume()` right after a
trigger, and cancels, disables and renames on behalf of the operator. They share
nothing but the database. The workflow calls the provider, SSH, the node API, the
Master panel and check-host.net; all of them can be slow, fail, or succeed and
lose the answer.

What makes each part correct:

- Workflow: at most one execution per job; no duplicate server per attempt; the
  old server goes only after a proven replacement; the Master never left on a
  server that is gone; registry and reality agree; every job ends and gives its
  node back.
- State machines: terminal states final; a node in a workflow state has an owner.
- Admission: the job budget, one job per request, no series of automatic jobs,
  every failed node repaired in the end.
- Reachability: no verdict that open answers could still change, none without a
  consensus of rounds.
- Deployment: never SUCCEEDED with credentials that do not work, no service left
  by a failure.
- Monitoring: an old host's failures do not condemn the new host; one alarm per
  failure, and another only for a lost update; a late check leaves a newer lease
  alone.
- Notifier: every event after the cursor is sent at least once, in order.
- Registry and wizards: a row never refers to a file that is gone; no file is left
  behind; only confirmed host keys are trusted.

The full list of hazards, each at its line, is in `PROJECT.json`, with the
properties that watch it, or why none does.

## 2. Modules

| Module | Models |
| --- | --- |
| `Checkpoints` | `ReplacementStateMachine`: terminal checkpoints, forward edges, `CanTransition`, and `Moved`, the job row after a transition |
| `NodeStates` | `NodeStateMachine`: the edges, `CanForce`, and `Restored`, what a job's unsuccessful end makes of its node |
| `Replacement` | the workflow of one node with its database rows and its surroundings |
| `SafeSwap` | what a replacement promises, without jobs, leases or checkpoints: servers, the one in service, the Master's target, evidence |
| `SwapRefinement` | the mapping from `Replacement` to `SafeSwap` |
| `MCReplacement` | the instances of `Replacement` TLC checks |
| `Admission` | `trigger()`, the worker's cycle and the bot's commands, for several nodes |
| `Verdicts` | `ReachabilityEvaluator` and the summaries Check-Host can give |
| `Monitoring`, `Notifier`, `Alerting` | health checks of a node; the notifier; the two around the event log |
| `Reachability`, `Deployment`, `Preparation` | the rounds of address checks; the deployment with its substates; the two as stages of one job |
| `Registry`, `Wizards`, `Onboarding` | rows, secret files and known_hosts; the bot's wizards; the two with a job and a server around them |
| `ReplacementProofs`, `SwapProofs`, `OutcomeProofs` | theorems about `Replacement`, for all values of the constants: its type and lease; the safety of the swap and the refinement of `SafeSwap`; what is left of the node and of the temporary servers. Each extends the one before |
| `AdmissionProofs`, `AlertingProofs`, `PreparationProofs`, `OnboardingProofs` | theorems about the other compositions, likewise |

How they belong together: `Replacement` takes a verification of an address and a
deployment as single outcomes, `Preparation` opens both. `Admission` takes the
life of a job as "active until it ends", `Replacement` is that life.
`Monitoring`, `Admission` and `Replacement` share `NodeStates`, and each states
what the others do to a node's state in one action. `Preparation` and `Alerting`
compose their parts with `INSTANCE`, `Onboarding` with `EXTENDS`.

### State of `Replacement` and where it lives in the code

| Variable | Code |
| --- | --- |
| `job` | `replacement_jobs`: `checkpoint` (`cp`), `active_slot`, `attempt_count`, `is_forced`, original state, old and new VPS ids, provider-request mark, Master snapshot, the five `*_at` gates as Booleans |
| `dep` | `deployments`, by job and attempt: `none`, `pending` (the five resumable states), `succeeded`, `failed`; the server deployed on |
| `lease` | the holder of the *unexpired* lease: an expired lease is indistinguishable from none (`try_acquire_workflow_lease`); `Dead` is the unexpired lease of a crashed process |
| `node` | state, `current_host` as a server, and a version of the name, for the name of the server to create is made of it |
| `vps` | `vps_instances`: role CURRENT, REPLACEMENT, or state DELETED |
| `cloud`, `label`, `inflight` | the provider: servers, their names, create requests whose sender is gone |
| `master` | the Master's entry for the node: the server its address is of, and the one its API token is of |
| `worker` | executions of `resume()`: the next step and the Python locals that survive an `await` |
| `admin` | `set_node_operation_mode` between its check and its write |
| `observed` | history variable: which servers were really found reachable, and by which check; the properties compare the durable gates with it |
| `faults` | how many misfortunes so far |

### Grain of atomicity

A step is one database transaction or one external call. The stage's first
transaction has the pc of the checkpoint; later steps have names of their own
(`find`, `create`, `record`, ...). A stage of the code is thus two to four
actions, each ending in the durable state the process would leave if it died
there. `Dispatch` reads the checkpoint and jumps (`_dispatch` reads in a session
of its own, and the stage trusts the result). Two reductions: an external call
that only reads and whose effect is a choice is merged with the transaction that
follows (`FindCandidate`, `SnapshotMaster`, `TestMaster`); and the transactions
themselves are atomic, though the database runs them READ COMMITTED. The one long
transaction, `_stage_deploying`, keeps job and node rows across a deployment of
minutes, and is split: `StageDeploying` reads, `RecordDeployment` writes the
changed columns over whatever was committed meanwhile. Other transactions are
split where a property hangs on it: the check and the insert of `trigger` in
`Admission`, the check and the write of a mode change in `Admission` and
`Replacement`, and in `Monitoring` the read of the node's row and the commit of what
was computed from it, for a check, for a trigger and for the last transaction of a
repair. The commit of a row that was read earlier writes only the columns whose value
changed, as the ORM's flush does, and nothing (no row lock, no version) keeps another
commit from coming in between.

What stays atomic that is not in the database: in `Replacement` and `Admission`
monitoring's verdict is one step on the row as it is (`MonitorNode`, `Fail`,
`Recover`). A verdict on a row read before the trigger, written over REPLACING
(section 4, finding 7), is therefore outside of what those two modules show: a node
that reads FAILED while its job is active, and goes on reading FAILED when that job
is cancelled, is not among their states. In `Monitoring` the unsuccessful end of a
repair and the two mode changes read and write in one step. They write the state and
no counter, and their reads find a workflow state or DISABLED, which only the commit
of an older read can change under them; that commit is in `lost` already.

A transaction commits when `Commits` says so: the lease can be renewed (steps in
`Renewing`), required rows exist, the state machines allow the move, the guard
passes. Otherwise it raises: a deferral releases the lease and leaves the
checkpoint; anything else goes to `_fail_job`. Every external call may also be
interrupted by a transient error (`Defer`) or another (`Break`), applied or not.

### Abstractions of `Replacement`

Servers are numbers, 0 the first one; names are (version, job, attempt). A
provider refuses a second live server of one name and drops or serves a request
whose sender is gone in its own time; the reconciliation grace period
(`orchestrator.py:383-402`) is taken to outlast that time. Delete calls that
report an error other than a transient one are taken not to have been applied;
Master updates may have been applied whatever they report. The rounds of address
checks give pass, reject or defer. `Deploy` gives the deployment's outcome, and
`Reverify` the second look at one that had already succeeded, which can stop its
service while the row stays SUCCEEDED. A registry precondition that fails
(provider inactive, secret missing, port missing) is a nondeterministic failure
of the step that looks it up.

Left out of `Replacement`: dry-run jobs, the limit of 64 transitions per
`resume()`, events and messages, malformed provider answers, a Master POST that
arrives long after its sender crashed, and other nodes. With one node, the limit
of temporary servers (`HasRoom`) is hardly exercised.

### `SafeSwap` and the refinement

The abstract state is a cloud, the server in service, the Master's target and a
set of evidence `<<kind, server>>`; `Next` says which server may be bought, lost,
discarded, switched to, retired and adopted, each in terms of evidence alone.
Evidence of an address and of the final check is `observed` of `Replacement`;
evidence of a deployment is the server of a succeeded `deployments` row. Leases,
retries, checkpoints, deferrals and cancels are stutters.

### `Admission`

`call` is the `trigger()` (or mode change) each process is in, with its locals:
the execution mode it read, the pause gate, the advisory lock, the transaction's
reads (`Check`) and writes (`Insert`). `cycle` is `run_cycle` and what is left of
the list it works on; `exec` are the jobs that the bot's tasks resume, `lock` the
holder of the PostgreSQL advisory lock, which a crash releases. Force
confirmations carry a request key and may be delivered any number of times;
ordinary ones and the worker's calls have none. `Returned`, `Busy`, `EndJob` and
`DeferTask` are what `resume()` looks like from outside; that a job ends is the
fairness `JobEnds` of `Replacement` justifies. The current VPS row and the
provider's activity are one flag (`ready`); the provider's temporary server limit
belongs to `Replacement`.

### `Monitoring`, `Notifier`, `Alerting`

`chk` is each execution of `run_node` (the scheduler's and an operator's), with
the host it read in its first transaction, the verdict, and the row `seen` in its
second. That second transaction is two actions: `ReadNode` reads state and counters,
`Apply` computes from what was read and commits (`workers/monitoring.py:148-191`,
which take no row lock); `Over` is what such a commit leaves of a column. `mlease` is
the unexpired monitoring lease. `host` is a version of `current_host`. The time
stamps of events are taken before the commit, as the code does, from a logical
clock. `due`, `alarms`, `lost`, `skipped` and `sent` are history variables: `lost`
counts the commits over a row that was no longer the one read, `alarms` the
NODE_FAILED since the node was last found healthy, repaired or disabled. A repair is
a start (`StartRepair` reads and judges the node's state, `TakeNode` commits
REPLACING over it) and an end, which is `FailRepair`, or `StampRepair` (the last
transaction reads the row and stamps its event) and `CommitRepair`. The events of a
repair's start and failure are left out; the notifier would treat them like the
others. Two events
never share a time stamp (the code breaks such ties by id, and the clock of the
database has microseconds).

### `Reachability`, `Deployment`, `Preparation`

A round is an outer and an inner check, each a summary of successes and failures
among the check nodes asked, the rest pending at the deadline; `misled` counts the
rounds whose reports were wrong from as many check nodes as the quorum hangs on.
`dep` is the deployments row through its seven states, `panel` the service on the
server with a version of its credentials, `config` and `stored` the versions that
were read and stored. An SSH connection that is lost, or a timeout, leaves the
installer running on the server (`orphan`), which may complete at any later time
and change the credentials: nothing in the code waits for it. `overlap` and
`untidy` remember what the properties have to excuse. One execution at a time
runs, which holds while a lease (1800 s by default) is longer than the longest
wait between two renewals (an installer's 900 s and its surroundings).

### `Registry`, `Wizards`, `Onboarding`

One provider, one node, one server address, and the secret files as a set of
references. A wizard is the dictionary the bot keeps for each operator: its
stage, the row it is about, the references it holds (`staged_ref`,
`api_token_ref`, `ssh_secret_ref`), the host key it has shown. A series of
questions whose answers are only noted is one stage. Updates are handled one at a
time (`busy` is the one handler that awaits the node between its read and its
write while the worker, another process, may write the same row). A row and a
file never change in the same step. `Conclude` is the end of every confirmation,
with an error before or after the commit. `ssh_verify_host_key` is the constant
`Strict`; it is FALSE by default, and then no key is confirmed or compared; the
run has it TRUE.

## 3. Runs

Misfortunes of `MCReplacement` (crash, deferral, a lease that lapses under its
holder, a server lost by the provider, cancel, disable, rename) are drawn from
`Faults`, at most `MaxFaults` per behaviour; ordinary errors (`Break`), bad
addresses and failed deployments are not counted and can happen at any time.

| Run | Instance | Question |
| --- | --- | --- |
| `swap_safety` | 2 jobs in a row, 2 attempts, servers 0..4, 1 execution, one of crash/deferral/lost | Is the swap safe whatever stops it at whatever step? (`OldVpsDeletedOnlyWhenProven`, `OneTemporaryPerJob`, `RegistryAgrees`, `NoStrandedNode`, `TypeOK`, and the refinement `ImplementsSafeSwap`) |
| `interference` | 1 job, 2 attempts, servers 0..4, 2 executions, three of crash/deferral/lost/cancel/disable/rename | Can a second execution or the operator make it wrong? (`LeaseMutex`, `MasterTargetProven`, `DuplicatesRenamed`, `VerifiedNeverDiscarded`, `OldVpsDeletedOnlyWhenProven`, `ImplementsSafeSwap`) |
| `progress` | 1 job, 2 attempts, 2 executions, one of crash/deferral/lapse, `FairSpec` | Is a lease ever taken from its holder? Does every job end? |
| `admission` | 2 nodes, a budget of 1 job, one force confirmation per node, 3 commands, failures of health or crashes, `FairSpec`; 1.3 million states, 2 min | Does the budget hold (`ConcurrencyBounded`)? Does a confirmation keep its job (`ReplayAnswersSameJob`)? Is a failed job followed by another automatic one (`WorkerNeverRepeats`)? Has a node in a workflow state its job (`WorkflowStateOwned`)? Is every failed node repaired in the end (`RepairStarts`)? |
| `monitoring` | 2 executions of a check, thresholds 2 and 1, 4 time stamps, 2 misfortunes or commands; 5.4 million states, 2 min | Do stale verdicts count against a new host (`StaleResultsBounded`)? Is an alarm repeated without a lost update (`RepeatsPaid`)? Is a lease kept (`MonitoringLeaseKept`)? |
| `alerting` | 1 execution of a check, thresholds 1 and 1, 3 time stamps, one misfortune or command, two refused sends or restarts, batches of 2, `FairSpec`; 360 000 states | Are alerts sent in order, none skipped, all in the end (`PassedIsSent`, `OnlyLastRepeated`, `AlertsDelivered`)? |
| `preparation` | 5 rounds of which 3 decide, 3 outer and 3 inner check nodes, 4 crashes or lost connections, `FairSpec`; 190 000 states | Are verdicts right (`VerdictsSound`)? Does a verified panel work with the stored credentials (`VerifiedPanelWorks`)? Does a failure leave a service (`FailureLeavesNoService`)? Does a deployment end (`DeploymentEnds`)? |
| `onboarding` | 2 operators, 4 secrets, 2 host keys, one fault; 760 000 states | Has every credential in use its file (`LiveSecretsExist`)? Who leaves files behind (`NoOtherLeak`)? Is an unseen host key ever trusted (`OnlyConfirmedKeysTrusted`)? |
| `rollback_deferred`, `cancel_revived`, `deleted_then_failed`, `auto_repair_stale` | the smallest instance | findings 1, 2, 3 and 5 below: TLC must find the violation |

Why these bounds, for the swap: a second job is the first one to take over what
the first left in the registry (a promoted server as the new old one), and nothing
carries over to a third that a second does not see. Two attempts reach every path
of cleanup and retry, and the exhausted budget. Two executions are all a lease can
confuse; a third is refused the same way. An attempt creates one server, and one
more for each two misfortunes (an answer lost, then the server lost or the node
renamed), so servers 0..4 suffice for two jobs of two attempts and one misfortune,
and for one job and three. Three misfortunes let one or two prepare (a lost answer,
a crash) what another exploits (a rename, a lost server).

For the others. Admission: two nodes are what a budget of one can confuse, and a
cycle's list of two is the first with a stale tail; the worker and the bot are the
only two processes that trigger, and a bot handles one update at a time; three
changes suffice for cancel, replay and a crash in one behaviour. Monitoring:
two checks overlap when a lease lapses, which costs no fault; four time stamps give
DEGRADED, two verdicts at the threshold and the stamp of a repair, and with two
faults a repair can be disabled, repeated or overtaken. Alerting: one check and a
repair are two writers that commit in another order than they stamp; three time
stamps, with all three kinds of alert, overfill a batch of two.
Preparation: five rounds and a consensus of three are the code's defaults, and 3
probes with a quorum of 2 and of 1 give every verdict, in more than one way; four faults let an execution crash in an install, resume, lose its
connection and fail its rollback. Onboarding: four secrets are what two wizards
and one node hold at once (a fifth takes the run past its time without a new
shape); one fault each for an error after a commit, a disk error or a restart.

`CHECK_DEADLOCK FALSE` is there where the system may stop: in `interference`
(after a cancelled job is revived, finding 2, and its worker dies, nothing can
resume it), in `preparation` (a verified, discarded or failed candidate is the
end of these stages), and in `admission`, `monitoring`, `alerting`
and `onboarding`, whose bounds are used up at some time.

Symmetry: executions of `Replacement` differ only by their token, so `Symmetry`
permutes `Workers`, in safety runs only; `onboarding` permutes its operators and
its secrets, and checks no liveness.

### Fairness

Every assumption is weak fairness of what a scheduler or a timeout drives; none
is made of the operator, of faults, or of any outcome: nothing says that a check
ever passes.

- `Replacement.FairSpec`: every execution's next step (each external call has a
  timeout, each loop a bound); acquiring an active job (the scheduler runs a cycle
  at a fixed interval, one at a time, and each cycle resumes every job of
  `list_active`: `workers/scheduler.py:24-52`, `workers/replacement.py:46-75`);
  the expiry of leases (time passes) and the provider settling requests it holds.
  `JobEnds` then says an active job ends one way or another. It holds while
  repairs are enabled and not paused, and with finitely many deferrals: a provider
  that is transiently unavailable for ever defers a job for ever, by design.
- `Admission.FairSpec`: the worker's steps, the bot's steps once an update is
  being handled, and the end of a job some execution is at, which is `JobEnds`
  of `Replacement`. A crash releases the lock because it is a session's.
  `RepairStarts` asks for a node to which nothing but the repair is missing, and
  for ready nodes: see the starvation below.
- `Alerting.FairSpec`: the notifier's steps (a repeating job of the bot); nothing
  of monitoring. Refused sends and restarts are finitely many.
- `Preparation.FairSpec`: the steps of the deployment, each of which has a
  timeout, and its resumption; nothing of the rounds, which may be inconclusive
  for ever and defer the job each time.

## 4. Findings

Findings 1, 2, 3 and 5 have runs in which TLC shows them. The other three appear as
what the properties of passing runs have to allow (`DuplicatesRenamed`, `RepeatsPaid`).

1. **A deferred rollback is forgotten** (`rollback_deferred`,
   `MasterTargetKept`). The final check finds the new address unreachable and
   asks for a rollback; the rollback is applied but its confirmation is a
   transient error, so the job is deferred at `final_check`, not failed. The
   verdict is not recorded. The next `resume()` finds the address reachable again
   and continues to the deletion of the old server, to which the Master has been
   switched back. `docs/REPLACEMENT.md:70-71` says a failed or ambiguous rollback
   never permits old-VPS deletion.
2. **A cancelled job comes back** (`cancel_revived`, `TerminalIsFinal`). The
   deployment stage reads the job, deploys for minutes, and commits
   `node_verified` over the `cancelled` committed meanwhile; the slot stays free,
   so no worker resumes the job once its execution has gone and another one may
   be triggered.
3. **Deleted, then failed** (`deleted_then_failed`, `UnsuccessfulKeepsOld`). The
   old server is deleted before the transaction that records it. Any permanent
   error of that transaction (`orchestrator.py:1112-1145`), or of the stage repeated
   after a crash in between, ends in `failed` with the event "old VPS was not
   deleted" (`orchestrator.py:1185`); the node keeps `current_host` on the deleted
   server.
4. **A rename duplicates the candidate** (no run of its own). The deterministic name is recomputed from the node's
   current name; `rename_node` does not refuse a node with an active job, so a
   crash in the create window followed by a rename makes lookup-before-create
   miss (`docs/ARCHITECTURE.md:42-43`). With `rename` among the faults
   `OneTemporaryPerJob` is therefore false; `DuplicatesRenamed` is what remains true,
   one more server for each rename at most.
5. **A node is repaired in MONITOR_ONLY** (`auto_repair_stale`,
   `MonitorOnlyNeverRepaired`). `run_cycle` selects its nodes once
   (`workers/replacement.py:76-101`) and repairs them one after another, each for
   as long as its job lasts; `trigger()` does not read the mode again, and
   `set_node_operation_mode` accepts a change while the node has no job yet.
   `docs/RUNTIME_CONTROLS.md:10` and `README.md:55` say automatic replacement is
   then never triggered.
6. **A failure is announced twice** (no run of its own). A check
   outlives its lease (nothing renews it while Check-Host is polled, and disabling
   the node drops it) and a second one starts. Each reads the row, DEGRADED and one
   short of the threshold, before the other commits; both write FAILED and record
   NODE_FAILED. A test says a node "fails once"
   (`tests/test_monitoring_health.py:68`), and `docs/DATA_MODEL.md:11` that the lease
   prevents duplicates. `RepeatsPaid` is what remains true: every repetition has cost
   a lost update; without its `lost` it would be violated.
7. **A verdict is written over REPLACING** (no run of its own). A check reads the node, a trigger commits REPLACING,
   the check commits a health state over it. `docs/MONITORING.md:68-69` says that
   monitoring only changes health states. The node reads, say, FAILED while its job
   is active; a job that ends unsuccessfully restores only a node in a workflow
   state, so it stays that way, and after a cancel the next cycle may see a failed
   node.

Accepted limits and smaller observations met while modelling, without a run:

- a lease shorter than the longest wait between renewals lets two executions in
  (`Lapse`), and most swap safety is then gone, because `PassIp`, `RejectIp`,
  `RecordMasterUpdate` and `Finish` commit without renewing; a worker whose lease
  lapsed can also overwrite a SUCCEEDED deployment row with FAILED;
- a disable that passed its check before a trigger makes `Finish` refuse the
  node's last move after the old server is gone;
- a cancel between the Master update and its record leaves the Master on the
  candidate (`orchestrator.py:312`); it is a proven one, which nothing deletes;
- auto repair: a failed node that cannot be triggered (its provider inactive) stays
  at the head of the list, and the cut at `max_concurrent_replacements` can keep
  the others out for ever; `RepairStarts` asks for ready nodes for that reason;
- a force confirmation that was answered with an already active job has no job of
  its own: replayed after that job has ended, it creates one
  (`docs/FORCE_REPAIR.md:38`); `ReplayAnswersSameJob` speaks of confirmations that
  have their job;
- `failure_threshold = 1`: HEALTHY -> FAILED is no edge, the check raises and the
  node stays HEALTHY; a re-enabled node keeps its failure counter and can go from
  UNKNOWN to FAILED;
- a discard of secret files that meets a disk error stops half way, and the row is
  gone already (`DiscardFails`);
- an event committed behind the notifier's cursor is never sent (`skipped`);
- secret files are left behind by a wizard that is overwritten by another button,
  by an SSH edit whose secret is sent twice, by the refresh of a registered node
  and by the end of a replacement, which drops the old token's file
  (`docs/TELEGRAM.md:60`); pressing Cancel after a confirmation that failed behind
  its commit deletes the file of a live credential; a rotation that races with
  `Finish` stores a token that was tried on the old server;
- a connection lost while looking for an installation reads as "not installed":
  3X-UI is installed again over itself, with new credentials; an installer that
  outlives its connection or its worker can replace the credentials after they
  were read; a re-verification that fails stops the service of a deployment whose
  row stays SUCCEEDED.

## 5. Proofs

`ReplacementProofs` holds, for every number of jobs, executions, servers,
attempts, temporary servers and faults (`ReplacementAssumption`):

- `TypeInductive`: `Spec => []IndTypeOK`. `TypeOK` alone is not inductive: a step
  that indexes `cloud` or names a server by a local must know the local is set
  (`LocalsKnown`); a transaction must know its job row has been inserted
  (`Begun`), or the failure of a job that does not exist would be a step; and the
  version of the node's name is bounded by `MaxFaults` only because each rename
  is a counted fault (`node.name <= faults`).
- `TypeCorrect`: `Spec => []TypeOK`, from it. Among the shapes is the attempt
  counter within `max_replacement_attempts`, which holds because cleanup compares
  before it increments.
- `MutualExclusion`: if `"lapse" \notin Faults` then `Spec => []LeaseMutex`. The
  invariant is proved with `IndTypeOK`; a commit keeps a lease with its holder or
  renews it for a caller that may (`CommitKeepsLease`), and only `Acquire` brings
  an execution inside, which needs the lease free. The assumption is the one a
  deployer must ensure: `replacement_job_lease_seconds` above the longest wait
  between two renewals.
- `NobodyTakesALease`: `Spec => LeaseTakenByNobody`, without that assumption.
  However late an execution releases, renews or acquires, the token comparison
  keeps it from another's lease.

The proof of each is one lemma per group of actions, the groups being those of
`Next` (provisioning, checking, deploying, switching, cleaning, resuming,
operator, environment), and inside each one step per action.

`SwapProofs`, from the same assumption and `"lapse" \notin Faults`: no lease runs out
under a live holder. That is the assumption the code itself makes: `PassIp`,
`RejectIp`, `RecordMasterUpdate` and `Finish` commit without renewing, and with two
executions inside one job the statements below are false (section 4). All other
faults are allowed, in any number.

- `SwapInvariant`: `Spec => []SwapInv`. Its parts: `IndTypeOK` and `HoldsLease`
  (each execution inside holds its job's lease, so nobody else moves its row);
  `World`, the registry, the provider and the Master (one row is CURRENT, it is
  `current_host`, and it was bought for no job that is not completed; a labelled
  or current server was created once; the Master points at evidence); `Exclusive`,
  one active slot; `RowOK` for each job's row (its old server is the node's while
  it has the slot, its gates stand behind their observations, gates and deployment
  are all about the server in `new`, the checkpoint says which gates are set, a
  snapshot to roll back to is evident); `Placed`, which checkpoint an execution's
  next step belongs to; `Known`, what its locals still mean after the `await`s
  between. None of the properties is inductive without `Placed` and `Known`: a
  stage reads in one transaction and records in another, and only the lease with
  the row's own history makes what it read true when it writes.
- A step is handled by its frame. `Frame` says what an execution leaves alone (the
  rows of other jobs, the servers bought for them, evidence); `FrameStep` derives
  the invariant of all the others from it once, so each action has to show only
  its own row, its own knowledge and `World`. `Calm` and `Quiet` are the two
  weaker kinds of step, which have lemmas of their own.
- `OneServerInService`, `MasterPointsAtProven`: `RegistryAgrees` and
  `MasterTargetProven`, from it. `OldVpsGate` and `VerifiedCandidatesKept`:
  `OldVpsDeletedOnlyWhenProven` and `VerifiedNeverDiscarded`, by going through the
  only two steps that delete a server.
- `Refinement`: `Spec => ImplementsSafeSwap`. Every step maps to a step of `SafeSwap`
  or to a stutter: a create or a request served late is `Buy`, the two
  checks and the deployment `Establish` evidence, temporary cleanup is `Discard`, a Master
  update or a rollback is `Switch` (the invariant shows the target evident), the
  deletion is `Retire` and `Finish` is `Adopt`.

`OutcomeProofs`, on top of `SwapInv`:

- `NodeNeverStranded`: `Spec => []NoStrandedNode` if `Faults` has neither `lapse` nor
  `cancel`. `Settled` says that a job which is not over has the slot; then each step
  either takes a job on and enters workflow states for it only (`Onward`), or ends
  it and restores the node. The disable races, renames, crashes and deferrals are
  all in. A cancel that meets the commit of a deployment is finding 2: it revives
  the job without its slot.
- `SingleTemporary`: `Spec => []OneTemporaryPerJob` if `Faults` has neither `lapse` nor
  `rename`. `Tidy` says of each job that whatever runs for it carries the name of
  its present attempt and is the server in `new` if that is set, and that an open
  create request is for that name, which is free: the attempt counter, and with it
  the name, changes only when the server is gone. `Sure` says that the name an
  execution looked up is still its job's when it creates. A rename breaks exactly
  that: finding 4.

`AdmissionProofs`, for any number of nodes, slots, confirmations and changes
(`AdmissionAssumption`):

- `Invariance`: `Spec => []IInv`. The budget is not inductive: `Locked` says that
  whoever is between the count and the insert holds the lock and that the slot it
  counted is still free, which no end of a job and no refused call can spoil.
  `Flow` ties the worker's call to the head of its list, `KeysApart` keeps request
  keys unique.
- `TypeCorrect`, `Bounded`, `Owned`: type, budget and `WorkflowStateOwned`, from it.
  `SameAnswers`: `ReplayAnswersSameJob`, from `KeysApart`.
- `NeverRepeats`: `Spec => []WorkerNeverRepeats`, with a second invariant, `History`.
  The worker does not look at the jobs again when a node's turn comes, so the proof
  has to say why its list stays right: the last job of a listed node is the
  operator's, a simulation or completed (`Listed`, `Settled`), each node is listed
  once, an active job that is no simulation keeps its node out of FAILED
  (`LiveOwns`, which is where the operator's re-enabling of a disabled node comes
  in), and a job is only ever inserted behind ended ones (`LastActive`).

`AlertingProofs`, for any number of executions, hosts, faults, thresholds and batch
sizes (`AlertingAssumption`, which asks for a finite set of executions):

- `Invariance`: `Spec => []IInv`. Of monitoring: `CountsStamped` (each failure or
  success counted, and each verdict about to be, has a time stamp of its own, which
  bounds the counters by the clock) and `SeenStamped` (so have the counts a check
  has read, for they may be written back long after); `StaleCounted` (unless an
  update was lost, the failures counted against the present host, and the checks
  under way of another, stay within what was due when it was switched in);
  `AlarmsPaid` (one alarm is free, and it belongs to a node that is FAILED or was
  when its repair was triggered; every other has its lost update); `Decided`;
  `StampsApart` (a stamp taken and not committed belongs to no other event). Of the
  notifier: `Batched` (the batch is ahead of the cursor, in order, and leaves out
  only what was committed late), `HeadHandled`, `CursorKnown` and `SentInOrder`.
- `TypeCorrect`, `CountersForget`, `RepeatedAlarmsPaid`, `NothingPassedUnsent`: the
  invariants of `monitoring` and `alerting`, from it. `LeaseKept`, `SentInLogOrder`:
  their action properties. `RepeatedAlarmsPaid` bounds the repetitions for any number
  of checks, triggers and repairs; that there are repetitions is finding 6.
- `Listing`, the query by time with its limit, is a `CHOOSE` of a sequence.
  `ListingExists` shows that a finite log has one, by a least log that has none
  (`LeastNatural`); `ListingSorts` says what any step may assume of it.

`PreparationProofs`, for every number of rounds, check nodes, quorums, faults
(`PreparationAssumption`, which the settings' validators enforce):

- `VerdictsAreForced`: a verdict on a summary is the verdict on every completion
  of it. It makes polling to a deadline sound.
- `Invariance`: `Spec => []IInv`. The four invariants are not inductive: `Placed`
  ties the step of the execution to the checkpoint and the deployment's state;
  `Counted` bounds the clean (filtered) rounds of a candidate that is not what
  they say by the misled ones, with one round of credit between the outer and the
  inner check; `Judged` carries that past the decision; `Witnessed` says what the
  execution knows of the panel after each remote step, unless an installer
  overlaps; `Watched` says when a service can be up and who will stop it.
- `TypeCorrect`, `SoundVerdicts`, `VerifiedWorks`, `FailureIsQuiet`: the four
  invariants of the run, from it.

`OnboardingProofs`, for any number of operators, secrets, host keys and faults
(`RegistryAssumption`; `WizardsAssumption` says that "no reference" is not the name
of a row):

- `Invariance`: `Spec => []IInv`. `LiveSecretsExist` is not inductive: that a cancel
  deletes no live file needs that no wizard holds a live reference and no two
  wizards share one (`Apart`), and that a rotation's old reference is in one slot
  only (`SlotsApart`), each up to the references in `unsure`. `Collected` says what
  a wizard holds at each stage, `DeployedApart` that a deployment's token is nobody
  else's until the job ends, `Rotating` what `replace_node_api_token` carries over
  the awaits between its read and its commit.
- `TypeCorrect`, `CredentialsReadable`, `OnlySeenKeys`: the three invariants of the
  run. `NothingElseLeaks`: its action property, one lemma per kind of step over two
  facts of sets (`NothingLeaks`, `RowsLeak`); it needs of `Collected` that a wizard
  which saves one secret holds no other.

With that, every invariant and every action property of the passing runs but
`DuplicatesRenamed` is a theorem, as is the refinement. Model-checked only:

- `DuplicatesRenamed`: its proof needs an invariant that counts the servers of each
  version of the name (section 7);
- liveness (`JobEnds`, `RepairStarts`, `AlertsDelivered`, `DeploymentEnds`): this prover
  does not handle fairness and ENABLED;
- the behaviours the theorems' assumptions leave out. With `cancel` the runs show
  `OldVpsDeletedOnlyWhenProven`, `MasterTargetProven` and the refinement, and so do
  the theorems; `NoStrandedNode` with `cancel` and `OneTemporaryPerJob` with
  `rename` are false, with `lapse` only the lease itself is claimed
  (`LeaseTakenByNobody`, `JobEnds`).

## 6. Not modelled

- Dry-run workflows and deployments: they touch nothing outside the database.
- Several nodes with a cloud each: `Replacement` is one node, so the temporary
  server limit that several jobs may pass together (`orchestrator.py:370`) is
  covered only through the bound on jobs and on servers per job.
- Anomalies of READ COMMITTED inside a short transaction, except where section 2
  says that the transaction is split.
- Master route selection (`master/routing.py`): a preference order over routes
  with one cached choice; every call may fail or be ambiguous in `Replacement`
  already. Discovery, diagnostics, health endpoints, the bot's menus and texts,
  signatures of buttons: they read and format, or check a signature.
- Configuration: the settings are the constants, their validators the assumptions.
- Backup and restore, shell installers, migrations, validation scripts: run by
  hand on stopped services, file I/O without interleavings.
- SSH transport and HTTP clients are their outcomes: done, refused, lost.

## 7. Plan

Done: `Replacement` with its runs and `SafeSwap` with its refinement, proved as far
as section 5 says; `Admission`; `Monitoring` and `Notifier`; `Reachability` and
`Deployment`; the registry and the wizards; the safety of each proved.

Left, in order of importance:

1. What survives a lapsed lease: which parts of `SwapInv` hold when `Tx` renews, so
   that the theorems need the assumption for the four commits that do not renew
   only.
2. `NoStrandedNode` with cancels, for jobs that are not in the deployment stage
   when they are cancelled.
3. A cloud shared by several nodes, for the temporary server limit.
4. Verdicts on rows read earlier in `Admission` and `Replacement` too, and what then
   remains of `WorkerNeverRepeats` and `NoStrandedNode`.
5. `DuplicatesRenamed` as a theorem: `Tidy` of `OutcomeProofs` for each version of the
   name.
6. Master route selection, if it ever keeps more state.
