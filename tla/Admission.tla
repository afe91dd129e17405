----------------------------- MODULE Admission -----------------------------
(****************************************************************************)
(* Which replacement jobs come into being: ReplacementOrchestrator.trigger  *)
(* under the global admission lock, called by the worker's cycle            *)
(* (ReplacementWorker.run_cycle) for nodes in AUTO_REPAIR, and by the bot   *)
(* for an operator, next to the operator's other commands.                  *)
(*                                                                          *)
(* The workflow itself is Replacement; here a job is active until it ends.  *)
(* Bot handlers run one at a time, the resume() tasks they create run on.   *)
(****************************************************************************)
EXTENDS Naturals, FiniteSets, Sequences, NodeStates

CONSTANTS
  NodeCount,      \* nodes are 1..NodeCount, in the order of their names
  MaxConcurrent,  \* max_concurrent_replacements
  Presses,        \* how many force-repair confirmations are issued for a node
  MaxChanges,     \* bound on commands, failures of health and misfortunes
  None

Nodes == 1..NodeCount
Confirmations == (1..Presses) \X Nodes   \* <<which, node>>, a request key each
Callers == {"worker", "bot"}

ASSUME AdmissionAssumption ==
  /\ NodeCount \in Nat /\ MaxConcurrent \in Nat \ {0}
  /\ Presses \in Nat /\ MaxChanges \in Nat
  /\ None \notin Confirmations /\ None \notin Callers /\ None \notin Nat

VARIABLES
  node,      \* nodes rows; ready: current VPS registered and provider active
  job,       \* replacement_jobs rows in the order they were inserted
  control,   \* runtime settings: paused, worker (auto repair on), live
  lock,      \* holder of the advisory lock
  call,      \* each process: the trigger() or mode change it is in
  cycle,     \* run_cycle: its step and what is left of the list it works on
  exec,      \* jobs that a task of the bot process is resuming
  answers,   \* history: <<confirmation, job id>> trigger() returned
  changes

vars == <<node, job, control, lock, call, cycle, exec, answers, changes>>

JobIds == 1..Len(job)
Active(j) == job[j].st = "active"
ActiveJobs == {j \in JobIds : Active(j)}
ActiveOf(n) == {j \in JobIds : job[j].node = n /\ Active(j)}
JobsOf(n) == {j \in JobIds : job[j].node = n}
Latest(n) == CHOOSE j \in JobsOf(n) : \A i \in JobsOf(n) : i <= j
NoCall == [pc |-> "idle", node |-> None, key |-> None, live |-> FALSE, orig |-> "FAILED"]

Init ==
  /\ node \in [Nodes -> [state : {"FAILED"}, mode : {"auto_repair"}, ready : {TRUE}]]
  /\ job = <<>>
  /\ control = [paused |-> FALSE, worker |-> TRUE, live |-> TRUE]
  /\ lock = None
  /\ call = [c \in Callers |-> NoCall]
  /\ cycle = [pc |-> "idle", todo |-> <<>>]
  /\ exec = {} /\ answers = {} /\ changes = 0

Counted == changes < MaxChanges /\ changes' = changes + 1
CallAt(c, l) == call[c].pc = l

------------------------------------------------------------------------------
(* trigger(): gates, lock, one transaction.                                 *)

\* How trigger() ends.  Accepted: the caller resumes the job, the worker in its
\* cycle and the bot in a task.  Rejected: ReplacementBusyError ends a cycle, any
\* other error only skips the node; the bot reports it.
Accepted(c, j, active) ==
  /\ call' = [call EXCEPT ![c] = NoCall]
  /\ \/ /\ c = "worker" /\ UNCHANGED exec
        /\ cycle' = [pc |-> "repair", todo |-> <<j>> \o Tail(cycle.todo)]
     \/ /\ c = "bot" /\ UNCHANGED cycle
        /\ exec' = IF active THEN exec \cup {j} ELSE exec
Rejected(c, why) ==
  /\ call' = [call EXCEPT ![c] = NoCall]
  /\ \/ c = "worker" /\ why = "busy" /\ cycle' = [pc |-> "idle", todo |-> <<>>]
     \/ c = "worker" /\ why # "busy" /\ cycle' = [cycle EXCEPT !.todo = Tail(@)]
     \/ c = "bot" /\ UNCHANGED cycle
  /\ UNCHANGED exec
Continues(c, r) == call' = [call EXCEPT ![c] = r] /\ UNCHANGED <<cycle, exec>>

\* effective_dry_run and _assert_not_paused, each in a session of its own; what
\* was read is used after the lock is taken.
ReadExecutionMode(c) ==
  /\ CallAt(c, "gates") /\ Continues(c, [call[c] EXCEPT !.pc = "pause", !.live = control.live])
  /\ UNCHANGED <<node, job, control, lock, answers, changes>>
AssertNotPaused(c) ==
  /\ CallAt(c, "pause")
  /\ \/ control.paused /\ Rejected(c, "paused")
     \/ ~control.paused /\ Continues(c, [call[c] EXCEPT !.pc = "lock"])
  /\ UNCHANGED <<node, job, control, lock, answers, changes>>

\* pg_try_advisory_lock does not wait: a held lock is ReplacementBusyError.
FaultyTakeLock(c) ==
  /\ CallAt(c, "lock") /\ lock' = c /\ Continues(c, [call[c] EXCEPT !.pc = "check"])
  /\ UNCHANGED <<node, job, control, answers, changes>>
TakeLock(c) ==
  /\ CallAt(c, "lock")
  /\ \/ lock = None /\ lock' = c /\ Continues(c, [call[c] EXCEPT !.pc = "check"])
     \/ lock # None /\ Rejected(c, "busy") /\ UNCHANGED lock
  /\ UNCHANGED <<node, job, control, answers, changes>>

\* The job a trigger returns instead of creating one: that of its request key,
\* then the node's active one.
FaultyReused(c) == ActiveOf(call[c].node)
Reused(c) ==
  LET replay == {j \in JobIds : call[c].key # None /\ job[j].key = call[c].key} IN
  IF replay # {} THEN replay ELSE ActiveOf(call[c].node)

FaultyRefusal(c) ==
  LET r == node[call[c].node] IN
  CASE call[c].key # None /\ r.state \in InWorkflow -> "busy"
    [] call[c].key = None /\ r.state # "FAILED" -> "not failed"
    [] Cardinality(ActiveJobs) >= MaxConcurrent -> "busy"
    [] OTHER -> "none"
\* Why the transaction raises.
Refusal(c) ==
  LET r == node[call[c].node] IN
  CASE call[c].key # None /\ r.state \in InWorkflow -> "busy"
    [] call[c].key # None /\ ~CanForce(r.state) -> "disabled"
    [] call[c].key = None /\ r.state # "FAILED" -> "not failed"
    [] Cardinality(ActiveJobs) >= MaxConcurrent -> "busy"
    [] ~r.ready -> "not ready"
    [] OTHER -> "none"

Answered(c, j) ==
  IF call[c].key = None THEN answers ELSE answers \cup {<<call[c].key, j>>}

\* The transaction's reads.
Check(c) ==
  /\ CallAt(c, "check")
  /\ \/ /\ \E j \in Reused(c) : Accepted(c, j, Active(j)) /\ answers' = Answered(c, j)
        /\ lock' = None
     \/ /\ Reused(c) = {} /\ Refusal(c) # "none" /\ Rejected(c, Refusal(c))
        /\ lock' = None /\ UNCHANGED answers
     \/ /\ Reused(c) = {} /\ Refusal(c) = "none"
        /\ Continues(c, [call[c] EXCEPT !.pc = "insert", !.orig = node[call[c].node].state])
        /\ UNCHANGED <<lock, answers>>
  /\ UNCHANGED <<node, job, control, changes>>

\* The transaction's writes, the commit and the unlock.  The node row is
\* written as it was read; only the job row has unique constraints.
Insert(c) ==
  LET n == call[c].node
      row == [node |-> n, st |-> "active", by |-> c, key |-> call[c].key,
              live |-> call[c].live, orig |-> call[c].orig] IN
  /\ CallAt(c, "insert") /\ lock' = IF lock = c THEN None ELSE lock
  /\ IF ActiveOf(n) = {} /\ (row.key = None \/ \A j \in JobIds : job[j].key # row.key)
     THEN /\ job' = Append(job, row)
          /\ node' = IF row.live THEN [node EXCEPT ![n].state = "REPLACING"] ELSE node
          /\ Accepted(c, Len(job'), TRUE) /\ answers' = Answered(c, Len(job'))
     ELSE Rejected(c, "not unique") /\ UNCHANGED <<job, node, answers>>
  /\ UNCHANGED <<control, changes>>

Trigger(c) ==
  ReadExecutionMode(c) \/ AssertNotPaused(c) \/ TakeLock(c) \/ Check(c) \/ Insert(c)

------------------------------------------------------------------------------
(* run_cycle.                                                               *)

CycleGoto(l, todo) == cycle' = [pc |-> l, todo |-> todo]

\* The one sequence of a set of numbers in ascending order.
Ascending(S) == {s \in [1..Cardinality(S) -> S] : \A i, k \in DOMAIN s : i < k => s[i] < s[k]}
Prefix(s, n) == SubSeq(s, 1, IF n < Len(s) THEN n ELSE Len(s))

FaultyStartCycle ==
  /\ cycle.pc = "idle" /\ ~control.paused /\ control.worker
  /\ CycleGoto("resume", <<>>)
  /\ UNCHANGED <<node, job, control, lock, call, exec, answers, changes>>
StartCycle ==
  /\ cycle.pc = "idle" /\ ~control.paused /\ control.worker
  /\ \E order \in Ascending(ActiveJobs) : CycleGoto("resume", order)
  /\ UNCHANGED <<node, job, control, lock, call, exec, answers, changes>>

\* One resume() after the other: it lasts until the job has ended or is deferred,
\* or it finds the job over or its lease taken by a task of the bot.
Returned(j) == \/ ~Active(j) /\ UNCHANGED changes
               \/ Active(j) /\ Counted
Busy(j) == (~Active(j) \/ j \in exec) /\ UNCHANGED changes

ResumeNext ==
  /\ cycle.pc = "resume" /\ cycle.todo # <<>>
  /\ Returned(Head(cycle.todo)) \/ Busy(Head(cycle.todo))
  /\ CycleGoto("resume", Tail(cycle.todo))
  /\ UNCHANGED <<node, job, control, lock, call, exec, answers>>

\* A failed job is not followed by another automatic one.
FaultyEligible(n) ==
  /\ node[n].state = "FAILED" /\ node[n].mode = "auto_repair"
  /\ JobsOf(n) # {} => job[Latest(n)].st # "cancelled"
Eligible(n) ==
  /\ node[n].state = "FAILED" /\ node[n].mode = "auto_repair"
  /\ JobsOf(n) # {} => job[Latest(n)].st \notin {"failed", "cancelled"}

\* The nodes to repair are chosen once, for all that the cycle still does.
SelectNodes ==
  /\ cycle.pc = "resume" /\ cycle.todo = <<>>
  /\ IF control.live
     THEN \E order \in Ascending({n \in Nodes : Eligible(n)}) :
            CycleGoto("trigger", Prefix(order, MaxConcurrent))
     ELSE CycleGoto("idle", <<>>)
  /\ UNCHANGED <<node, job, control, lock, call, exec, answers, changes>>

TriggerNext ==
  /\ cycle.pc = "trigger" /\ CallAt("worker", "idle")
  /\ IF cycle.todo = <<>> THEN CycleGoto("idle", <<>>) /\ UNCHANGED call
     ELSE /\ call' = [call EXCEPT !["worker"] =
                       [NoCall EXCEPT !.pc = "gates", !.node = Head(cycle.todo)]]
          /\ UNCHANGED cycle
  /\ UNCHANGED <<node, job, control, lock, exec, answers, changes>>

\* The job just triggered is resumed; a busy one ends the cycle.
Repair ==
  /\ cycle.pc = "repair"
  /\ \/ Returned(Head(cycle.todo)) /\ CycleGoto("trigger", Tail(cycle.todo))
     \/ Busy(Head(cycle.todo)) /\ CycleGoto("idle", <<>>)
  /\ UNCHANGED <<node, job, control, lock, call, exec, answers>>

WorkerStep ==
  \/ Trigger("worker")
  \/ StartCycle \/ ResumeNext \/ SelectNodes \/ TriggerNext \/ Repair

------------------------------------------------------------------------------
(* Jobs end.                                                                *)

Resumed(j) ==
  j \in exec \/ (cycle.pc \in {"resume", "repair"} /\ cycle.todo # <<>> /\ Head(cycle.todo) = j)

FaultyEndJob(j) ==
  /\ Active(j) /\ Resumed(j) /\ exec' = exec \ {j}
  /\ job' = [job EXCEPT ![j].st = "failed"]
  /\ UNCHANGED <<node, control, lock, call, cycle, answers, changes>>
\* The workflow ends the job: the node is taken over HEALTHY from a workflow
\* state, or given back as _restore_node_after_unsuccessful_job says.
EndJob(j) ==
  LET r == job[j]  n == r.node IN
  /\ Active(j) /\ Resumed(j) /\ exec' = exec \ {j}
  /\ \/ /\ r.live => node[n].state \in InWorkflow
        /\ job' = [job EXCEPT ![j].st = "completed"]
        /\ node' = IF r.live THEN [node EXCEPT ![n].state = "HEALTHY"] ELSE node
     \/ /\ job' = [job EXCEPT ![j].st = "failed"]
        /\ \E switched \in BOOLEAN :
             node' = IF r.live
                     THEN [node EXCEPT ![n].state =
                             Restored(@, r.key # None, switched, r.orig)]
                     ELSE node
  /\ UNCHANGED <<control, lock, call, cycle, answers, changes>>

\* A task of the bot ends with its job deferred.
DeferTask(j) ==
  /\ j \in exec /\ Active(j) /\ Counted /\ exec' = exec \ {j}
  /\ UNCHANGED <<node, job, control, lock, call, cycle, answers>>

\* cancel: refused after a recorded Master switch, which Replacement models.
Cancel(j) ==
  LET r == job[j] IN
  /\ Active(j) /\ CallAt("bot", "idle") /\ Counted
  /\ job' = [job EXCEPT ![j].st = "cancelled"]
  /\ node' = IF r.live
             THEN [node EXCEPT ![r.node].state =
                     Restored(@, r.key # None, FALSE, r.orig)]
             ELSE node
  /\ UNCHANGED <<control, lock, call, cycle, exec, answers>>

------------------------------------------------------------------------------
(* The bot: confirmations, modes, switches.                                 *)

BotCalls(r) ==
  /\ CallAt("bot", "idle") /\ call' = [call EXCEPT !["bot"] = r]
  /\ UNCHANGED <<node, job, control, lock, cycle, exec, answers>>

\* "rc" has no request key; "fc" has one, and may be pressed again.
ConfirmReplace(n) == Counted /\ BotCalls([NoCall EXCEPT !.pc = "gates", !.node = n])
ConfirmForce(k) ==
  /\ BotCalls([NoCall EXCEPT !.pc = "gates", !.node = k[2], !.key = k])
  /\ Counted

\* "jr": resume a job by hand.
ConfirmResume(j) ==
  /\ CallAt("bot", "idle") /\ Active(j) /\ j \notin exec /\ Counted
  /\ exec' = exec \cup {j}
  /\ UNCHANGED <<node, job, control, lock, call, cycle, answers>>

\* set_node_operation_mode: the active-job check and the write are one session,
\* not one statement; the pc of the call is the wanted mode.
Modes == {"disabled", "monitor_only", "auto_repair"}
CheckMode(n, m) ==
  /\ ActiveOf(n) = {} /\ node[n].mode # m
  /\ m = "auto_repair" => node[n].ready
  /\ Counted /\ BotCalls([NoCall EXCEPT !.pc = m, !.node = n])
CommitMode ==
  LET n == call["bot"].node  m == call["bot"].pc IN
  /\ m \in Modes
  /\ node' = [node EXCEPT ![n].mode = m,
       ![n].state = CASE m = "disabled" -> "DISABLED"
                      [] m # "disabled" /\ @ = "DISABLED" -> "UNKNOWN"
                      [] OTHER -> @]
  /\ call' = [call EXCEPT !["bot"] = NoCall]
  /\ UNCHANGED <<job, control, lock, cycle, exec, answers, changes>>

\* set_paused, set_replacement_enabled, set_execution_mode.
Toggle(f) ==
  /\ CallAt("bot", "idle") /\ Counted /\ control' = [control EXCEPT ![f] = ~@]
  /\ UNCHANGED <<node, job, lock, call, cycle, exec, answers>>

\* set_provider_active, here for the provider of node n.
SetProviderActive(n) ==
  /\ CallAt("bot", "idle") /\ Counted /\ node' = [node EXCEPT ![n].ready = ~@]
  /\ UNCHANGED <<job, control, lock, call, cycle, exec, answers>>

BotStep ==
  \/ Trigger("bot")
  \/ CommitMode

Operator ==
  \/ \E n \in Nodes : ConfirmReplace(n) \/ SetProviderActive(n) \/ \E m \in Modes : CheckMode(n, m)
  \/ \E k \in Confirmations : ConfirmForce(k)
  \/ \E j \in JobIds : ConfirmResume(j) \/ Cancel(j)
  \/ \E f \in {"paused", "worker", "live"} : Toggle(f)

------------------------------------------------------------------------------
(* Monitoring and crashes.                                                  *)

\* Monitoring of a node nobody repairs: it fails (through DEGRADED, which is to
\* a trigger what HEALTHY is) or is found healthy.  The verdict is on the row as
\* it is: one on a row read before the trigger is Monitoring's.
Fail(n) ==
  /\ node[n].state \in Monitored \ {"FAILED"} /\ node[n].mode # "disabled" /\ Counted
  /\ node' = [node EXCEPT ![n].state = "FAILED"]
  /\ UNCHANGED <<job, control, lock, call, cycle, exec, answers>>
Recover(n) ==
  /\ node[n].state \in Monitored \ {"HEALTHY"} /\ node[n].mode # "disabled" /\ Counted
  /\ node' = [node EXCEPT ![n].state = "HEALTHY"]
  /\ UNCHANGED <<job, control, lock, call, cycle, exec, answers>>

\* A process dies: its lock goes with its connection, its jobs stay active.
Restart(c) ==
  /\ Counted /\ call' = [call EXCEPT ![c] = NoCall]
  /\ lock' = IF lock = c THEN None ELSE lock
  /\ \/ c = "bot" /\ exec' = {} /\ UNCHANGED cycle
     \/ c = "worker" /\ cycle' = [pc |-> "idle", todo |-> <<>>] /\ UNCHANGED exec
  /\ UNCHANGED <<node, job, control, answers>>

Next ==
  \/ WorkerStep \/ BotStep \/ Operator
  \/ \E j \in JobIds : EndJob(j) \/ DeferTask(j)
  \/ \E n \in Nodes : Fail(n) \/ Recover(n)
  \/ \E c \in Callers : Restart(c)

Spec == Init /\ [][Next]_vars

\* The scheduler starts cycles, steps of both processes end, and a job somebody
\* resumes ends (Replacement's JobEnds).
Fairness ==
  /\ WF_vars(WorkerStep) /\ WF_vars(BotStep)
  /\ WF_vars(\E j \in JobIds : EndJob(j))
FairSpec == Spec /\ Fairness

------------------------------------------------------------------------------
(* Properties.                                                              *)

JobRow ==
  [ node : Nodes, st : {"active", "completed", "failed", "cancelled"}, by : Callers,
    key : Confirmations \cup {None}, live : BOOLEAN, orig : Monitored ]
Call ==
  [ pc : {"idle", "gates", "pause", "lock", "check", "insert"} \cup Modes,
    node : Nodes \cup {None}, key : Confirmations \cup {None}, live : BOOLEAN,
    orig : Monitored ]

\* The shape of the state.
TypeOK ==
  /\ node \in [Nodes -> [state : NodeState, mode : Modes, ready : BOOLEAN]]
  /\ job \in Seq(JobRow)
  /\ control \in [paused : BOOLEAN, worker : BOOLEAN, live : BOOLEAN]
  /\ lock \in Callers \cup {None}
  /\ call \in [Callers -> Call]
  /\ cycle \in [pc : {"idle", "resume", "trigger", "repair"}, todo : Seq(Nat)]
  /\ exec \subseteq JobIds
  /\ answers \subseteq Confirmations \X JobIds
  /\ changes \in 0..MaxChanges

\* However triggers of the worker and the bot interleave, no more jobs are
\* active than max_concurrent_replacements: the count and the insert are apart,
\* and only the admission lock holds them together.
ConcurrencyBounded == Cardinality(ActiveJobs) <= MaxConcurrent

\* docs/FORCE_REPAIR.md, "Replaying the same confirmation returns the same
\* replacement job": once a confirmation has its job, every later answer to it
\* is that job, whatever has become of it and whatever else repairs the node.
ReplayAnswersSameJob ==
  [][\A a \in answers' \ answers, j \in JobIds :
       job[j].key = a[1] => a[2] = j]_vars

\* "A bounded job must not become an unbounded series of fresh jobs"
\* (workers/replacement.py:96): two automatic jobs of a node are never in a row
\* when the first was unsuccessful (and not a simulation, which leaves the node
\* FAILED while it is active, and so eligible).
WorkerNeverRepeats ==
  \A i, j \in JobIds :
    /\ i < j /\ job[i].node = job[j].node
    /\ job[i].by = "worker" /\ job[j].by = "worker" /\ job[i].live
    /\ \A k \in (i + 1)..(j - 1) : job[k].node # job[i].node
    => job[i].st \notin {"failed", "cancelled"}

\* A job that is not simulated owns its node's workflow state, and every node in
\* a workflow state has such a job: nobody else could take it out of it.
WorkflowStateOwned ==
  \A n \in Nodes : node[n].state \in InWorkflow => \E j \in ActiveOf(n) : job[j].live

\* README.md:55, docs/RUNTIME_CONTROLS.md:10 and :27: the worker repairs a node
\* only while its mode is AUTO_REPAIR.
MonitorOnlyNeverRepaired ==
  [][\A j \in DOMAIN job' \ JobIds :
       job'[j].by = "worker" => node[job'[j].node].mode = "auto_repair"]_vars

\* Nothing but automatic repair is missing for node n.
WaitsForRepair(n) ==
  /\ Eligible(n) /\ ~control.paused /\ control.worker /\ control.live
  /\ \A m \in Nodes : node[m].ready

\* A failed AUTO_REPAIR node does not wait for ever, whoever crashed, holds the
\* lock or fills the slots.
RepairStarts == \A n \in Nodes : []<>~WaitsForRepair(n)
=============================================================================
