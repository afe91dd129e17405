-------------------------- MODULE ReplacementProofs --------------------------
(****************************************************************************)
(* Theorems about Replacement for every number of jobs, workers, servers,   *)
(* attempts and faults.                                                     *)
(****************************************************************************)
EXTENDS Replacement, TLAPS

\* What TypeOK needs to be inductive: a step that will index by its local
\* server or name has one, and names are counted by the renames behind them.
LocalsKnown ==
  \A p \in Workers :
    /\ worker[p].pc \in {"rounds", "master_put", "final_probe"} => worker[p].srv # None
    /\ worker[p].pc \in {"find", "create"} => worker[p].name # None

\* Only a job that has been inserted is active or being executed.
Begun ==
  /\ \A j \in Jobs : job[j].slot => job[j].cp # "none"
  /\ \A p \in Workers : worker[p].pc # "idle" => job[worker[p].job].cp # "none"

IndTypeOK == TypeOK /\ LocalsKnown /\ Begun /\ node.name <= faults

\* Moving a typed job row to a checkpoint leaves it typed.
LEMMA MovedTyped ==
  ASSUME NEW r \in JobRow, NEW t \in Checkpoint
  PROVE  Moved(r, t) \in JobRow
BY DEF Moved, JobRow

\* Writing one typed row of the job table leaves the table typed.
LEMMA RowTyped ==
  ASSUME job \in [Jobs -> JobRow], NEW j \in Jobs, NEW r \in JobRow
  PROVE  [job EXCEPT ![j] = r] \in [Jobs -> JobRow]
OBVIOUS

\* Every step name below is one.
LEMMA Names1 == Checkpoint \subseteq StepNames
BY DEF StepNames

\* An execution goes to another step.
LEMMA GotoTyped ==
  ASSUME WorkersTyped, NEW p \in Workers, NEW l \in StepNames, ~At(p, "idle"),
         Goto(p, l)
  PROVE  WorkersTyped'
BY DEF WorkersTyped, Goto, Execution, At

\* An execution goes to another step and takes a local along.
LEMMA GotoWithTyped ==
  ASSUME WorkersTyped, NEW p \in Workers, NEW l \in StepNames, ~At(p, "idle"),
         NEW s \in MaybeServer, GotoWith(p, l, s)
  PROVE  WorkersTyped'
BY ZenonT(60) DEF WorkersTyped, GotoWith, Execution, At

NeedsLocal == {"rounds", "master_put", "final_probe", "find", "create"}

\* The initial state satisfies the invariant.
LEMMA InitTyped == Init => IndTypeOK
<1> SUFFICES ASSUME Init PROVE IndTypeOK
  OBVIOUS
<1> USE ReplacementAssumption
<1>1. JobsTyped
  BY DEF Init, JobsTyped, JobRow, NoJob, NoDep, Deployment, Monitored, MaybeServer
<1>2. NodeTyped
  BY DEF Init, NodeTyped, NodeState, Monitored, Servers
<1>3. OutsideTyped
  BY DEF Init, OutsideTyped, Servers
<1>4. WorkersTyped
  BY DEF Init, WorkersTyped, Execution, Asleep, StepNames, MaybeServer, NodeState, Monitored
<1>5. LocalsKnown /\ Begun /\ node.name <= faults
  BY DEF Init, LocalsKnown, Begun, Asleep, NoJob
<1> QED
  BY <1>1, <1>2, <1>3, <1>4, <1>5 DEF IndTypeOK, TypeOK
\* A busy execution has a typed row of an inserted job.
LEMMA BusyRow ==
  ASSUME IndTypeOK, NEW p \in Workers, ~At(p, "idle")
  PROVE  /\ worker[p].job \in Jobs /\ JobOf(p) \in JobRow
         /\ JobOf(p).cp \in Checkpoint /\ JobOf(p).attempt \in 0..MaxAttempts
BY DEF IndTypeOK, TypeOK, WorkersTyped, JobsTyped, Begun, At, JobOf, JobRow

\* A row after a transition of its checkpoint.
LEMMA MovesTyped ==
  ASSUME IndTypeOK, NEW p \in Workers, ~At(p, "idle"),
         NEW l \in StepNames \ NeedsLocal, NEW s \in MaybeServer,
         Goto(p, l) \/ GotoWith(p, l, s)
  PROVE  WorkersTyped' /\ LocalsKnown'
<1>1. worker \in [Workers -> Execution]
  BY DEF IndTypeOK, TypeOK, WorkersTyped
<1>2. WorkersTyped'
  BY GotoTyped, GotoWithTyped DEF IndTypeOK, TypeOK
<1>3. LocalsKnown'
  BY <1>1 DEF IndTypeOK, LocalsKnown, Goto, GotoWith, NeedsLocal, Execution
<1> QED
  BY <1>2, <1>3

\* Writing the row of an inserted job, or none, keeps Begun as long as no other
\* execution starts.
LEMMA BegunKept ==
  ASSUME IndTypeOK, NEW j \in Jobs, NEW r \in JobRow, r.cp # "none",
         job' = job \/ job' = [job EXCEPT ![j] = r],
         \A p \in Workers : worker'[p].pc # "idle" =>
           worker[p].pc # "idle" /\ worker'[p].job = worker[p].job
  PROVE  Begun'
<1>1. \A p \in Workers : worker[p].pc # "idle" => worker[p].job \in Jobs
  BY DEF IndTypeOK, TypeOK, WorkersTyped
<1> QED
  BY <1>1 DEF IndTypeOK, TypeOK, JobsTyped, Begun

\* Facts of executions that do not move.
LEMMA SameWorker ==
  ASSUME IndTypeOK, NEW p \in Workers, ~At(p, "idle"), NEW l, NEW s,
         Goto(p, l) \/ GotoWith(p, l, s)
  PROVE  \A q \in Workers : worker'[q].pc # "idle" =>
           worker[q].pc # "idle" /\ worker'[q].job = worker[q].job
BY DEF IndTypeOK, TypeOK, WorkersTyped, Goto, GotoWith, At, Execution

\* A transaction commits or raises.
LEMMA TxTyped ==
  ASSUME IndTypeOK, NEW p \in Workers, ~At(p, "idle"), NEW r \in JobRow, Tx(p, r)
  PROVE  job' \in [Jobs -> JobRow] /\ lease' \in [Jobs -> Workers \cup {None, Dead}]
BY BusyRow, RowTyped DEF IndTypeOK, TypeOK, JobsTyped, Tx, KeepsLease

\* A step that is one transaction, its job row and more, and moves on.
LEMMA TxStep ==
  ASSUME IndTypeOK, NEW p \in Workers, ~At(p, "idle"),
         NEW r \in JobRow, r.cp \in Checkpoint, Tx(p, r),
         NEW l \in StepNames \ NeedsLocal, NEW s \in MaybeServer,
         Goto(p, l) \/ GotoWith(p, l, s),
         dep' \in [Jobs -> [0..MaxAttempts -> Deployment]],
         NodeTyped', OutsideTyped', (node.name <= faults)'
  PROVE  IndTypeOK'
<1>1. WorkersTyped' /\ LocalsKnown'
  BY MovesTyped
<1>2. JobsTyped'
  BY TxTyped DEF JobsTyped
<1>3. r.cp # "none"
  BY DEF Checkpoint, Running, Terminal
<1>4. Begun'
  BY <1>3, BusyRow, BegunKept, SameWorker DEF Tx
<1> QED
  BY <1>1, <1>2, <1>4 DEF IndTypeOK, TypeOK

\* A step that is one transaction on its job row and moves on.
LEMMA RowStep ==
  ASSUME IndTypeOK, NEW p \in Workers, ~At(p, "idle"),
         NEW r \in JobRow, r.cp \in Checkpoint, Tx(p, r),
         NEW l \in StepNames \ NeedsLocal, NEW s \in MaybeServer,
         Goto(p, l) \/ GotoWith(p, l, s),
         UNCHANGED <<dep, node, vps, outside, admin, observed, faults>>
  PROVE  IndTypeOK'
<1>1. NodeTyped' /\ OutsideTyped' /\ (node.name <= faults)'
  BY DEF IndTypeOK, TypeOK, NodeTyped, OutsideTyped, outside
<1>2. dep' \in [Jobs -> [0..MaxAttempts -> Deployment]]
  BY DEF IndTypeOK, TypeOK, JobsTyped
<1> QED
  BY <1>1, <1>2, TxStep

\* A step that leaves the job rows alone and moves on.
LEMMA MovesBegun ==
  ASSUME IndTypeOK, NEW p \in Workers, ~At(p, "idle"), NEW l, NEW s,
         Goto(p, l) \/ GotoWith(p, l, s), UNCHANGED job
  PROVE  Begun'
<1>1. JobOf(p).cp # "none"
  BY BusyRow DEF Checkpoint, Running, Terminal
<1> QED
  BY <1>1, BusyRow, BegunKept, SameWorker

\* A step that changes none of the rows.
LEMMA QuietStep ==
  ASSUME IndTypeOK, NEW p \in Workers, ~At(p, "idle"),
         NEW l \in StepNames \ NeedsLocal, NEW s \in MaybeServer,
         Goto(p, l) \/ GotoWith(p, l, s),
         UNCHANGED <<registry, outside, lease, admin, observed, faults>>
  PROVE  IndTypeOK'
<1>1. WorkersTyped' /\ LocalsKnown'
  BY MovesTyped
<1>2. JobsTyped' /\ NodeTyped' /\ OutsideTyped' /\ (node.name <= faults)'
  BY DEF IndTypeOK, TypeOK, JobsTyped, NodeTyped, OutsideTyped, registry, outside
<1>3. Begun'
  BY MovesBegun DEF registry
<1> QED
  BY <1>1, <1>2, <1>3 DEF IndTypeOK, TypeOK

\* A transaction raises.
LEMMA RaisesTyped ==
  ASSUME IndTypeOK, NEW p \in Workers, ~At(p, "idle"), Raises(p)
  PROVE  IndTypeOK'
<1>1. "fail" \in StepNames \ NeedsLocal /\ None \in MaybeServer
  BY DEF StepNames, NeedsLocal, MaybeServer
<1> QED
  BY <1>1, QuietStep DEF Raises

\* An execution that starts, or starts a stage, with no locals.
LEMMA FreshTyped ==
  ASSUME IndTypeOK, NEW p \in Workers, NEW j \in Jobs, NEW l \in StepNames \ NeedsLocal,
         worker' = [worker EXCEPT ![p] = [Asleep EXCEPT !.job = j, !.pc = l]]
  PROVE  WorkersTyped' /\ LocalsKnown'
<1>1. [Asleep EXCEPT !.job = j, !.pc = l] \in Execution
  BY DEF Asleep, Execution, MaybeServer, NodeState, Monitored
<1>2. WorkersTyped'
  BY <1>1 DEF IndTypeOK, TypeOK, WorkersTyped, Asleep
<1>3. LocalsKnown'
  BY DEF IndTypeOK, TypeOK, WorkersTyped, LocalsKnown, NeedsLocal, Asleep
<1> QED
  BY <1>2, <1>3

------------------------------------------------------------------------------
(* resume() itself.                                                         *)

\* The checkpoint is dispatched.
LEMMA DispatchTyped ==
  ASSUME IndTypeOK, NEW p \in Workers, Dispatch(p)
  PROVE  IndTypeOK'
<1>1. ~At(p, "idle") /\ worker[p].job \in Jobs /\ JobOf(p).cp \in Checkpoint
  BY BusyRow DEF Dispatch, At
<1> DEFINE l == IF JobOf(p).cp \in Terminal THEN "release" ELSE JobOf(p).cp
<1>2. l \in StepNames \ NeedsLocal
  BY <1>1 DEF StepNames, NeedsLocal, Checkpoint, Running, Terminal
<1>3. WorkersTyped' /\ LocalsKnown'
  BY <1>1, <1>2, FreshTyped DEF Dispatch
<1>4. JobsTyped' /\ NodeTyped' /\ OutsideTyped' /\ (node.name <= faults)'
  BY DEF Dispatch, IndTypeOK, TypeOK, JobsTyped, NodeTyped, OutsideTyped, registry, outside
<1>5. Begun'
  BY <1>1 DEF Dispatch, IndTypeOK, TypeOK, WorkersTyped, Begun, Asleep, At, registry
<1> QED
  BY <1>3, <1>4, <1>5 DEF IndTypeOK, TypeOK

\* An execution ends, by its own release or by its death.
LEMMA SleepTyped ==
  ASSUME IndTypeOK, NEW p \in Workers, worker' = [worker EXCEPT ![p] = Asleep],
         UNCHANGED job
  PROVE  WorkersTyped' /\ LocalsKnown' /\ Begun'
<1>1. Asleep \in Execution
  BY DEF Asleep, Execution, MaybeServer, NodeState, Monitored, StepNames
<1>2. WorkersTyped'
  BY <1>1 DEF IndTypeOK, TypeOK, WorkersTyped, Asleep
<1>3. LocalsKnown' /\ Begun'
  BY DEF IndTypeOK, TypeOK, WorkersTyped, LocalsKnown, Begun, Asleep
<1> QED
  BY <1>2, <1>3

\* The lease is released.
LEMMA ReleaseTyped ==
  ASSUME IndTypeOK, NEW p \in Workers, Release(p)
  PROVE  IndTypeOK'
<1>1. WorkersTyped' /\ LocalsKnown' /\ Begun'
  BY SleepTyped DEF Release, registry
<1>2. JobsTyped' /\ NodeTyped' /\ OutsideTyped' /\ (node.name <= faults)'
  BY DEF Release, IndTypeOK, TypeOK, JobsTyped, NodeTyped, OutsideTyped, registry, outside
<1> QED
  BY <1>1, <1>2 DEF IndTypeOK, TypeOK

\* Every step around a stage.
LEMMA ResumingTyped ==
  ASSUME IndTypeOK, NEW p \in Workers, Resuming(p)
  PROVE  IndTypeOK'
<1> USE DEF At
<1>1. CASE Defer(p)
  <2>1. WorkersTyped' /\ LocalsKnown' /\ Begun'
    BY <1>1, MovesTyped, MovesBegun
    DEF Defer, Deferrable, StepNames, NeedsLocal, MaybeServer, registry
  <2>2. JobsTyped' /\ NodeTyped' /\ OutsideTyped' /\ (node.name <= faults)'
    BY <1>1, ReplacementAssumption
    DEF Defer, Misfortune, IndTypeOK, TypeOK, JobsTyped, NodeTyped, OutsideTyped,
        registry, outside
  <2> QED
    BY <2>1, <2>2 DEF IndTypeOK, TypeOK
<1>2. CASE Break(p)
  BY <1>2, RaisesTyped DEF Break, Fallible
<1>3. CASE Refused(p)
  BY <1>3, RaisesTyped DEF Refused, Transactions, Renewing, NeedsNew, NeedsSnap, Target
<1>4. CASE FailJob(p)
  <2>1. WorkersTyped' /\ LocalsKnown' /\ ~At(p, "idle")
    BY <1>4, MovesTyped DEF FailJob, StepNames, NeedsLocal, MaybeServer
  <2>2. worker[p].job \in Jobs /\ JobOf(p) \in JobRow
    BY <2>1, BusyRow
  <2>3. Moved(JobOf(p), "failed") \in JobRow /\ Moved(JobOf(p), "failed").cp # "none"
    BY <2>2, MovedTyped, ZenonT(60) DEF Checkpoint, Terminal, Moved, JobRow
  <2>4. JobsTyped'
    BY <1>4, <2>2, <2>3, RowTyped DEF FailJob, IndTypeOK, TypeOK, JobsTyped
  <2>5. Restored(node.state, JobOf(p).forced, JobOf(p).masterUpdated, JobOf(p).orig)
          \in NodeState
    BY <2>2 DEF Restored, NodeState, JobRow, Monitored, IndTypeOK, TypeOK, NodeTyped
  <2>6. NodeTyped' /\ OutsideTyped' /\ (node.name <= faults)'
    BY <1>4, <2>5 DEF FailJob, IndTypeOK, TypeOK, NodeTyped, OutsideTyped, outside
  <2>7. Begun'
    BY <1>4, <2>1, <2>2, <2>3, BegunKept, SameWorker DEF FailJob
  <2> QED
    BY <2>1, <2>4, <2>6, <2>7 DEF IndTypeOK, TypeOK
<1> QED
  BY <1>1, <1>2, <1>3, <1>4, DispatchTyped, ReleaseTyped DEF Resuming
------------------------------------------------------------------------------
(* Leases, deaths and the environment.                                      *)

\* An execution begins.
LEMMA AcquireTyped ==
  ASSUME IndTypeOK, NEW p \in Workers, NEW j \in Jobs, Acquire(p, j)
  PROVE  IndTypeOK'
<1>1. worker' = [worker EXCEPT ![p] = [Asleep EXCEPT !.job = j, !.pc = "loop"]]
  <2>1. [Asleep EXCEPT !.job = j, !.pc = "loop"] = [Asleep EXCEPT !.pc = "loop", !.job = j]
    BY DEF Asleep
  <2> QED
    BY <2>1 DEF Acquire
<1>2. WorkersTyped' /\ LocalsKnown'
  BY <1>1, FreshTyped DEF StepNames, NeedsLocal
<1>3. JobsTyped' /\ NodeTyped' /\ OutsideTyped' /\ (node.name <= faults)'
  BY DEF Acquire, IndTypeOK, TypeOK, JobsTyped, NodeTyped, OutsideTyped, registry, outside
<1>4. Begun'
  BY DEF Acquire, Holdable, IndTypeOK, TypeOK, WorkersTyped, Begun, Asleep, registry
<1> QED
  BY <1>2, <1>3, <1>4 DEF IndTypeOK, TypeOK

\* A process dies.
LEMMA CrashTyped ==
  ASSUME IndTypeOK, NEW p \in Workers, Crash(p)
  PROVE  IndTypeOK'
<1>1. WorkersTyped' /\ LocalsKnown' /\ Begun'
  BY SleepTyped DEF Crash, registry
<1>2. worker[p].job \in Jobs
  BY BusyRow DEF Crash
<1>3. JobsTyped' /\ NodeTyped'
  BY <1>2 DEF Crash, IndTypeOK, TypeOK, JobsTyped, NodeTyped, registry
<1>4. OutsideTyped' /\ (node.name <= faults)'
  BY ReplacementAssumption
  DEF Crash, At, Misfortune, IndTypeOK, TypeOK, LocalsKnown, NodeTyped, OutsideTyped,
      WorkersTyped, Execution, registry
<1> QED
  BY <1>1, <1>3, <1>4 DEF IndTypeOK, TypeOK

\* What a step that touches no job row and no execution keeps.
LEMMA BystanderTyped ==
  ASSUME IndTypeOK, UNCHANGED <<job, worker>>
  PROVE  WorkersTyped' /\ LocalsKnown' /\ Begun'
BY DEF IndTypeOK, TypeOK, WorkersTyped, LocalsKnown, Begun

\* Time and the provider.
LEMMA EnvironmentTyped ==
  ASSUME IndTypeOK, Environment
  PROVE  IndTypeOK'
<1> USE ReplacementAssumption
<1>1. ASSUME NEW p \in Workers, Lapse(p) PROVE IndTypeOK'
  <2>1. WorkersTyped' /\ LocalsKnown' /\ Begun'
    BY <1>1, BystanderTyped DEF Lapse, registry
  <2>2. worker[p].job \in Jobs
    BY <1>1, BusyRow DEF Lapse
  <2>3. JobsTyped' /\ NodeTyped' /\ OutsideTyped' /\ (node.name <= faults)'
    BY <1>1, <2>2
    DEF Lapse, Misfortune, IndTypeOK, TypeOK, JobsTyped, NodeTyped, OutsideTyped,
        registry, outside
  <2> QED
    BY <2>1, <2>3 DEF IndTypeOK, TypeOK
<1>2. ASSUME NEW j \in Jobs, Expire(j) PROVE IndTypeOK'
  <2>1. WorkersTyped' /\ LocalsKnown' /\ Begun'
    BY <1>2, BystanderTyped DEF Expire, registry
  <2>2. JobsTyped' /\ NodeTyped' /\ OutsideTyped' /\ (node.name <= faults)'
    BY <1>2
    DEF Expire, IndTypeOK, TypeOK, JobsTyped, NodeTyped, OutsideTyped, registry, outside
  <2> QED
    BY <2>1, <2>2 DEF IndTypeOK, TypeOK
<1>3. ASSUME NEW n \in inflight, Settle(n) PROVE IndTypeOK'
  <2>1. WorkersTyped' /\ LocalsKnown' /\ Begun'
    BY <1>3, BystanderTyped DEF Settle, registry
  <2>2. JobsTyped' /\ NodeTyped' /\ OutsideTyped' /\ (node.name <= faults)'
    BY <1>3
    DEF Settle, Fresh, Creates, IndTypeOK, TypeOK, JobsTyped, NodeTyped, OutsideTyped,
        registry
  <2> QED
    BY <2>1, <2>2 DEF IndTypeOK, TypeOK
<1>4. ASSUME NEW s \in Servers, LoseServer(s) PROVE IndTypeOK'
  <2>1. WorkersTyped' /\ LocalsKnown' /\ Begun'
    BY <1>4, BystanderTyped DEF LoseServer, registry
  <2>2. JobsTyped' /\ NodeTyped' /\ OutsideTyped' /\ (node.name <= faults)'
    BY <1>4
    DEF LoseServer, Misfortune, IndTypeOK, TypeOK, JobsTyped, NodeTyped, OutsideTyped,
        registry
  <2> QED
    BY <2>1, <2>2 DEF IndTypeOK, TypeOK
<1>5. ASSUME NEW target \in Monitored, MonitorNode(target) PROVE IndTypeOK'
  <2>1. WorkersTyped' /\ LocalsKnown' /\ Begun'
    BY <1>5, BystanderTyped DEF MonitorNode
  <2>2. JobsTyped' /\ NodeTyped' /\ OutsideTyped' /\ (node.name <= faults)'
    BY <1>5
    DEF MonitorNode, NodeState, IndTypeOK, TypeOK, JobsTyped, NodeTyped, OutsideTyped,
        outside
  <2> QED
    BY <2>1, <2>2 DEF IndTypeOK, TypeOK
<1> QED
  BY <1>1, <1>2, <1>3, <1>4, <1>5, CrashTyped DEF Environment

\* The operator's commands.
LEMMA OperatorTyped ==
  ASSUME IndTypeOK, Operator
  PROVE  IndTypeOK'
<1> USE ReplacementAssumption
<1>1. ASSUME NEW j \in Jobs, NEW s \in Servers, NEW forced \in BOOLEAN,
             Trigger(j, s, forced)
      PROVE  IndTypeOK'
  <2> DEFINE r == [NoJob EXCEPT !.cp = "created", !.slot = TRUE, !.forced = forced,
                     !.orig = IF forced THEN node.state ELSE "FAILED", !.old = s]
  <2>1. r \in JobRow /\ r.cp # "none"
    <3>1. NoJob \in JobRow
      BY DEF NoJob, JobRow, Monitored, MaybeServer
    <3>2. (IF forced THEN node.state ELSE "FAILED") \in Monitored
      BY <1>1 DEF Trigger, CanForce, Monitored
    <3>3. "created" \in Checkpoint /\ s \in MaybeServer
      BY DEF Checkpoint, Running, MaybeServer
    <3> QED
      BY <3>1, <3>2, <3>3 DEF JobRow
  <2>2. WorkersTyped' /\ LocalsKnown'
    BY <1>1 DEF Trigger, IndTypeOK, TypeOK, WorkersTyped, LocalsKnown
  <2>3. Begun'
    BY <1>1, <2>1, BegunKept DEF Trigger
  <2>4. JobsTyped'
    BY <1>1, <2>1 DEF Trigger, IndTypeOK, TypeOK, JobsTyped
  <2>5. NodeTyped' /\ (node.name <= faults)'
    BY <1>1 DEF Trigger, IndTypeOK, TypeOK, NodeTyped, NodeState, InWorkflow
  <2>6. OutsideTyped'
    BY <1>1 DEF Trigger, IndTypeOK, TypeOK, OutsideTyped, outside
  <2> QED
    BY <2>2, <2>3, <2>4, <2>5, <2>6 DEF IndTypeOK, TypeOK
<1>2. ASSUME NEW j \in Jobs, Cancel(j) PROVE IndTypeOK'
  <2>1. job[j] \in JobRow
    BY DEF IndTypeOK, TypeOK, JobsTyped
  <2>2. Moved(job[j], "cancelled") \in JobRow /\ Moved(job[j], "cancelled").cp # "none"
    BY <2>1, MovedTyped, ZenonT(60) DEF Checkpoint, Terminal, Moved, JobRow
  <2>3. WorkersTyped' /\ LocalsKnown'
    BY <1>2 DEF Cancel, IndTypeOK, TypeOK, WorkersTyped, LocalsKnown
  <2>4. Begun'
    BY <1>2, <2>2, BegunKept DEF Cancel
  <2>5. Restored(node.state, job[j].forced, FALSE, job[j].orig) \in NodeState
    BY <2>1 DEF Restored, NodeState, JobRow, Monitored, IndTypeOK, TypeOK, NodeTyped
  <2>6. JobsTyped'
    BY <1>2, <2>2 DEF Cancel, IndTypeOK, TypeOK, JobsTyped
  <2>7. NodeTyped' /\ (node.name <= faults)'
    <3>1. node' = [node EXCEPT !.state =
                     Restored(node.state, job[j].forced, FALSE, job[j].orig)]
      BY <1>2 DEF Cancel
    <3>2. node \in [state : NodeState, host : Servers, name : 0..MaxFaults]
      BY DEF IndTypeOK, TypeOK, NodeTyped
    <3>3. NodeTyped' /\ node'.name = node.name
      BY <3>1, <3>2, <2>5 DEF NodeTyped
    <3>4. faults' = faults + 1 /\ faults \in Nat /\ node.name \in Nat /\ node.name <= faults
      BY <1>2, <3>2 DEF Cancel, Misfortune, IndTypeOK, TypeOK, OutsideTyped
    <3> QED
      BY <3>3, <3>4
  <2>8. OutsideTyped'
    BY <1>2 DEF Cancel, Misfortune, IndTypeOK, TypeOK, OutsideTyped, outside
  <2> QED
    BY <2>3, <2>4, <2>6, <2>7, <2>8 DEF IndTypeOK, TypeOK
<1>3. CASE CheckDisable
  <2>1. WorkersTyped' /\ LocalsKnown' /\ Begun'
    BY <1>3, BystanderTyped DEF CheckDisable, registry
  <2>2. JobsTyped' /\ NodeTyped' /\ OutsideTyped' /\ (node.name <= faults)'
    BY <1>3
    DEF CheckDisable, Misfortune, IndTypeOK, TypeOK, JobsTyped, NodeTyped, OutsideTyped,
        registry, outside
  <2> QED
    BY <2>1, <2>2 DEF IndTypeOK, TypeOK
<1>4. CASE CommitDisable
  <2>1. WorkersTyped' /\ LocalsKnown' /\ Begun'
    BY <1>4, BystanderTyped DEF CommitDisable
  <2>2. NodeTyped' /\ (node.name <= faults)'
    BY <1>4
    DEF CommitDisable, Misfortune, IndTypeOK, TypeOK, NodeTyped, OutsideTyped, NodeState, Monitored
  <2>3. JobsTyped' /\ OutsideTyped'
    BY <1>4 DEF CommitDisable, Misfortune, IndTypeOK, TypeOK, JobsTyped, OutsideTyped, outside
  <2> QED
    BY <2>1, <2>2, <2>3 DEF IndTypeOK, TypeOK
<1>5. CASE Enable
  <2>1. WorkersTyped' /\ LocalsKnown' /\ Begun'
    BY <1>5, BystanderTyped DEF Enable
  <2>2. NodeTyped' /\ (node.name <= faults)'
    BY <1>5
    DEF Enable, Misfortune, IndTypeOK, TypeOK, NodeTyped, OutsideTyped, NodeState, Monitored
  <2>3. JobsTyped' /\ OutsideTyped'
    BY <1>5 DEF Enable, Misfortune, IndTypeOK, TypeOK, JobsTyped, OutsideTyped, outside
  <2> QED
    BY <2>1, <2>2, <2>3 DEF IndTypeOK, TypeOK
<1>6. CASE Rename
  <2>1. WorkersTyped' /\ LocalsKnown' /\ Begun'
    BY <1>6, BystanderTyped DEF Rename
  <2>2. NodeTyped' /\ (node.name <= faults)'
    BY <1>6
    DEF Rename, Misfortune, IndTypeOK, TypeOK, NodeTyped, OutsideTyped, NodeState, Monitored
  <2>3. JobsTyped' /\ OutsideTyped'
    BY <1>6 DEF Rename, Misfortune, IndTypeOK, TypeOK, JobsTyped, OutsideTyped, outside
  <2> QED
    BY <2>1, <2>2, <2>3 DEF IndTypeOK, TypeOK
<1> QED
  BY <1>1, <1>2, <1>3, <1>4, <1>5, <1>6 DEF Operator

------------------------------------------------------------------------------
(* The stages.                                                              *)

\* The row a transaction writes: the job's own, moved, with flags set.
LEMMA RowShapes ==
  ASSUME NEW r \in JobRow, NEW t \in Checkpoint
  PROVE  /\ Moved(r, t) \in JobRow /\ Moved(r, t).cp = t
         /\ [Moved(r, t) EXCEPT !.ipVerified = TRUE] \in JobRow
         /\ [Moved(r, t) EXCEPT !.ipVerified = TRUE].cp = t
         /\ [Moved(r, t) EXCEPT !.masterUpdated = TRUE] \in JobRow
         /\ [Moved(r, t) EXCEPT !.masterUpdated = TRUE].cp = t
         /\ [Moved(r, t) EXCEPT !.masterVerified = TRUE] \in JobRow
         /\ [Moved(r, t) EXCEPT !.masterVerified = TRUE].cp = t
         /\ [Moved(r, t) EXCEPT !.finalVerified = TRUE] \in JobRow
         /\ [Moved(r, t) EXCEPT !.finalVerified = TRUE].cp = t
<1>1. Moved(r, t) \in JobRow /\ Moved(r, t).cp = t
  BY MovedTyped DEF Moved, JobRow
<1> QED
  BY <1>1 DEF JobRow

\* Transactions on the job row alone.
LEMMA PlainStages ==
  ASSUME IndTypeOK, NEW p \in Workers,
         \/ StageCreated(p) \/ StageProvisioned(p) \/ RecordRunning(p) \/ BootGrace(p)
         \/ PassIp(p) \/ RejectIp(p) \/ StageTempCleanup(p) \/ StageNodeVerified(p)
         \/ TestMaster(p) \/ RecordMasterUpdate(p) \/ StageMasterUpdated(p)
         \/ StageMasterVerifying(p) \/ RecordMasterVerified(p) \/ StageMasterVerified(p)
         \/ RecordFinal(p) \/ StageFinalVerified(p) \/ StageOldVpsCleanup(p)
  PROVE  IndTypeOK'
<1>1. ~At(p, "idle")
  BY DEF At, StageCreated, StageProvisioned, RecordRunning, BootGrace, PassIp, RejectIp,
     StageTempCleanup, StageNodeVerified, TestMaster, RecordMasterUpdate,
     StageMasterUpdated, StageMasterVerifying, RecordMasterVerified,
     StageMasterVerified, RecordFinal, StageFinalVerified, StageOldVpsCleanup
<1>2. /\ JobOf(p) \in JobRow /\ JobOf(p).cp \in Checkpoint /\ None \in MaybeServer
      /\ JobOf(p).new \in MaybeServer /\ JobOf(p).old \in MaybeServer
  BY <1>1, BusyRow DEF JobRow, MaybeServer
<1>3. {"loop", "ready", "boot", "temp_delete", "temp_record", "master_get",
       "master_verify", "old_delete"} \subseteq StepNames \ NeedsLocal
  BY DEF StepNames, NeedsLocal
<1>4. {"provisioning", "checking_ip", "ip_verified", "temp_cleanup", "master_updating",
       "master_updated", "master_verifying", "master_verified", "final_check",
       "final_verified", "old_vps_cleanup"} \subseteq Checkpoint
  BY DEF Checkpoint, Running
<1>a. CASE StageCreated(p)
  <2> DEFINE m == Moved(JobOf(p), "provisioning")
             r == [m EXCEPT !.attempt = IF @ < 1 THEN 1 ELSE @]
  <2>1. m \in JobRow /\ m.cp = "provisioning"
    BY <1>2, <1>4, RowShapes
  <2>3. 1 \in 0..MaxAttempts
    BY ReplacementAssumption
  <2>2. r \in JobRow /\ r.cp \in Checkpoint
    BY <1>4, <2>1, <2>3 DEF JobRow
  <2> QED
    BY <1>1, <1>2, <1>3, <1>a, <2>2, RowStep DEF StageCreated
<1>b. CASE \/ StageProvisioned(p) \/ RecordRunning(p) \/ StageTempCleanup(p)
           \/ StageNodeVerified(p) \/ StageMasterVerifying(p) \/ StageOldVpsCleanup(p)
  BY <1>1, <1>2, <1>3, <1>b, RowStep
  DEF StageProvisioned, RecordRunning, StageTempCleanup, StageNodeVerified,
      StageMasterVerifying, StageOldVpsCleanup
<1>c. CASE BootGrace(p)
  <2>1. Moved(JobOf(p), "checking_ip") \in JobRow
        /\ Moved(JobOf(p), "checking_ip").cp \in Checkpoint
    BY <1>2, <1>4, RowShapes, ZenonT(60)
  <2> QED
    BY <1>1, <1>2, <1>3, <1>c, <2>1, RowStep DEF BootGrace
<1>d. CASE RejectIp(p)
  <2>1. Moved(JobOf(p), "temp_cleanup") \in JobRow
        /\ Moved(JobOf(p), "temp_cleanup").cp \in Checkpoint
    BY <1>2, <1>4, RowShapes, ZenonT(60)
  <2> QED
    BY <1>1, <1>2, <1>3, <1>d, <2>1, RowStep DEF RejectIp
<1>e. CASE TestMaster(p)
  <2>1. Moved(JobOf(p), "master_updating") \in JobRow
        /\ Moved(JobOf(p), "master_updating").cp \in Checkpoint
    BY <1>2, <1>4, RowShapes, ZenonT(60)
  <2> QED
    BY <1>1, <1>2, <1>3, <1>e, <2>1, RowStep DEF TestMaster
<1>f. CASE StageMasterUpdated(p)
  <2>1. Moved(JobOf(p), "master_verifying") \in JobRow
        /\ Moved(JobOf(p), "master_verifying").cp \in Checkpoint
    BY <1>2, <1>4, RowShapes, ZenonT(60)
  <2> QED
    BY <1>1, <1>2, <1>3, <1>f, <2>1, RowStep DEF StageMasterUpdated
<1>g. CASE StageMasterVerified(p)
  <2>1. Moved(JobOf(p), "final_check") \in JobRow
        /\ Moved(JobOf(p), "final_check").cp \in Checkpoint
    BY <1>2, <1>4, RowShapes, ZenonT(60)
  <2> QED
    BY <1>1, <1>2, <1>3, <1>g, <2>1, RowStep DEF StageMasterVerified
<1>h. CASE StageFinalVerified(p)
  <2>1. Moved(JobOf(p), "old_vps_cleanup") \in JobRow
        /\ Moved(JobOf(p), "old_vps_cleanup").cp \in Checkpoint
    BY <1>2, <1>4, RowShapes, ZenonT(60)
  <2> QED
    BY <1>1, <1>2, <1>3, <1>h, <2>1, RowStep DEF StageFinalVerified
<1>i. CASE PassIp(p)
  <2>1. [Moved(JobOf(p), "ip_verified") EXCEPT !.ipVerified = TRUE] \in JobRow
        /\ [Moved(JobOf(p), "ip_verified") EXCEPT !.ipVerified = TRUE].cp \in Checkpoint
    BY <1>2, <1>4, RowShapes, ZenonT(60)
  <2> QED
    BY <1>1, <1>2, <1>3, <1>i, <2>1, RowStep DEF PassIp
<1>j. CASE RecordMasterUpdate(p)
  <2>1. [Moved(JobOf(p), "master_updated") EXCEPT !.masterUpdated = TRUE] \in JobRow
        /\ [Moved(JobOf(p), "master_updated") EXCEPT !.masterUpdated = TRUE].cp \in Checkpoint
    BY <1>2, <1>4, RowShapes, ZenonT(60)
  <2> QED
    BY <1>1, <1>2, <1>3, <1>j, <2>1, RowStep DEF RecordMasterUpdate
<1>k. CASE RecordMasterVerified(p)
  <2>1. [Moved(JobOf(p), "master_verified") EXCEPT !.masterVerified = TRUE] \in JobRow
        /\ [Moved(JobOf(p), "master_verified") EXCEPT !.masterVerified = TRUE].cp \in Checkpoint
    BY <1>2, <1>4, RowShapes, ZenonT(60)
  <2> QED
    BY <1>1, <1>2, <1>3, <1>k, <2>1, RowStep DEF RecordMasterVerified
<1>l. CASE RecordFinal(p)
  <2>1. [Moved(JobOf(p), "final_verified") EXCEPT !.finalVerified = TRUE] \in JobRow
        /\ [Moved(JobOf(p), "final_verified") EXCEPT !.finalVerified = TRUE].cp \in Checkpoint
    BY <1>2, <1>4, RowShapes, ZenonT(60)
  <2> QED
    BY <1>1, <1>2, <1>3, <1>l, <2>1, RowStep DEF RecordFinal
<1> QED
  BY <1>a, <1>b, <1>c, <1>d, <1>e, <1>f, <1>g, <1>h, <1>i, <1>j, <1>k, <1>l

\* Steps that only report what they saw and move on.
LEMMA QuietStages ==
  ASSUME IndTypeOK, NEW p \in Workers,
         ServerReady(p) \/ VerifyMaster(p) \/ RollbackVerified(p)
  PROVE  IndTypeOK'
<1>1. ~At(p, "idle") /\ None \in MaybeServer
  BY DEF At, ServerReady, VerifyMaster, RollbackVerified, MaybeServer
<1>2. {"running", "gone", "verify_record", "rollback", "fail"} \subseteq StepNames \ NeedsLocal
  BY DEF StepNames, NeedsLocal
<1> QED
  BY <1>1, <1>2, QuietStep DEF ServerReady, VerifyMaster, RollbackVerified

\* Steps that go on with the job's own server, whose presence they required.
LEMMA TargetStages ==
  ASSUME IndTypeOK, NEW p \in Workers,
         StageCheckingIp(p) \/ StageMasterUpdating(p) \/ StageFinalCheck(p)
  PROVE  IndTypeOK'
<1>1. ~At(p, "idle")
  BY DEF At, StageCheckingIp, StageMasterUpdating, StageFinalCheck
<1>2. /\ worker[p].job \in Jobs /\ JobOf(p) \in JobRow /\ JobOf(p).cp # "none"
      /\ JobOf(p).new \in Servers
  BY <1>1, BusyRow
  DEF StageCheckingIp, StageMasterUpdating, StageFinalCheck, At, Tx, Commits, NeedsNew,
      JobRow, MaybeServer, Checkpoint, Running, Terminal
<1>3. PICK l \in {"rounds", "master_put", "final_probe"} : GotoWith(p, l, JobOf(p).new)
  BY DEF StageCheckingIp, StageMasterUpdating, StageFinalCheck
<1>4. WorkersTyped'
  BY <1>1, <1>2, <1>3, GotoWithTyped DEF StepNames, MaybeServer, IndTypeOK, TypeOK
<1>5. LocalsKnown'
  BY <1>2, <1>3, ReplacementAssumption
  DEF GotoWith, Servers, IndTypeOK, TypeOK, WorkersTyped, Execution, LocalsKnown
<1>6. Tx(p, JobOf(p)) /\ UNCHANGED <<dep, node, vps, outside, admin, observed, faults>>
  BY DEF StageCheckingIp, StageMasterUpdating, StageFinalCheck
<1>7. JobsTyped' /\ NodeTyped' /\ OutsideTyped' /\ (node.name <= faults)'
  BY <1>1, <1>2, <1>6, TxTyped
  DEF IndTypeOK, TypeOK, JobsTyped, NodeTyped, OutsideTyped, outside
<1>8. Begun'
  BY <1>1, <1>2, <1>3, <1>6, BegunKept, SameWorker DEF Tx
<1> QED
  BY <1>4, <1>5, <1>7, <1>8 DEF IndTypeOK, TypeOK

\* The steps that provision a server.
LEMMA ProvisioningTyped ==
  ASSUME IndTypeOK, NEW p \in Workers,
         \/ StageProvisioning(p) \/ FindCandidate(p) \/ CreateServer(p)
         \/ RecordServer(p) \/ CandidateGone(p)
  PROVE  IndTypeOK'
<1> USE ReplacementAssumption
<1>1. ~At(p, "idle")
  BY DEF At, StageProvisioning, FindCandidate, CreateServer, RecordServer, CandidateGone
<1>2. /\ worker[p].job \in Jobs /\ JobOf(p) \in JobRow /\ JobOf(p).cp \in Checkpoint
      /\ worker[p] \in Execution /\ worker \in [Workers -> Execution]
      /\ None \in MaybeServer /\ JobOf(p).attempt \in 0..MaxAttempts
  BY <1>1, BusyRow DEF IndTypeOK, TypeOK, WorkersTyped, MaybeServer
<1>3. JobOf(p).cp # "none"
  BY <1>2 DEF Checkpoint, Running, Terminal
<1>4. {"loop", "fail", "record", "release"} \subseteq StepNames \ NeedsLocal
  BY DEF StepNames, NeedsLocal
<1>5. {"provisioned", "temp_cleanup"} \subseteq Checkpoint
  BY DEF Checkpoint, Running
<1>6. /\ Moved(JobOf(p), "provisioned") \in JobRow
      /\ Moved(JobOf(p), "provisioned").cp = "provisioned"
      /\ Moved(JobOf(p), "temp_cleanup") \in JobRow
      /\ Moved(JobOf(p), "temp_cleanup").cp = "temp_cleanup"
  BY <1>2, <1>5, RowShapes
<1>a. CASE StageProvisioning(p)
  <2>1. NodeTyped' /\ OutsideTyped' /\ (node.name <= faults)'
    BY <1>a
    DEF StageProvisioning, IndTypeOK, TypeOK, NodeTyped, OutsideTyped, outside
  <2>2. CASE Goto(p, "loop") \/ Goto(p, "fail")
    <3>1. /\ Moved(JobOf(p), "provisioned") \in JobRow
          /\ Moved(JobOf(p), "provisioned").cp # "none"
      BY <1>6
    <3>2. job' = job \/ job' = [job EXCEPT ![worker[p].job] = Moved(JobOf(p), "provisioned")]
      BY <1>a DEF StageProvisioning
    <3>3. JobsTyped'
      BY <1>2, <1>a, <3>1, <3>2, RowTyped
      DEF StageProvisioning, IndTypeOK, TypeOK, JobsTyped
    <3>4. WorkersTyped' /\ LocalsKnown'
      BY <1>1, <1>2, <1>4, <2>2, MovesTyped
    <3>5. Begun'
      BY <1>1, <1>2, <2>2, <3>1, <3>2, BegunKept, SameWorker
    <3> QED
      BY <2>1, <3>3, <3>4, <3>5 DEF IndTypeOK, TypeOK
  <2>3. CASE /\ UNCHANGED job
             /\ worker' = [worker EXCEPT ![p].pc = "find", ![p].name = NameOf(worker[p].job),
                                         ![p].req = JobOf(p).requested, ![p].room = HasRoom]
    <3>1. NameOf(worker[p].job) \in Names
      BY <1>2 DEF NameOf, Names, JobOf, IndTypeOK, TypeOK, NodeTyped
    <3>2. JobOf(p).requested \in BOOLEAN /\ HasRoom \in BOOLEAN
      BY <1>2 DEF JobRow, HasRoom
    <3>3. WorkersTyped'
      BY <1>2, <2>3, <3>1, <3>2, ZenonT(60) DEF IndTypeOK, TypeOK, WorkersTyped, Execution, StepNames
    <3>4. LocalsKnown' /\ Begun'
      BY <1>1, <1>2, <2>3, <3>1
      DEF IndTypeOK, LocalsKnown, Begun, Execution, At
    <3>5. JobsTyped'
      BY <1>a, <2>3 DEF StageProvisioning, IndTypeOK, TypeOK, JobsTyped
    <3> QED
      BY <2>1, <3>3, <3>4, <3>5 DEF IndTypeOK, TypeOK
  <2> QED
    BY <1>a, <2>2, <2>3 DEF StageProvisioning
<1>b. CASE FindCandidate(p)
  <2>1. NodeTyped' /\ OutsideTyped' /\ (node.name <= faults)'
    BY <1>b DEF FindCandidate, IndTypeOK, TypeOK, NodeTyped, OutsideTyped, outside
  <2>2. \A s \in Candidates(worker[p].name) : s \in MaybeServer
    BY DEF Candidates, MaybeServer
  <2>3. WorkersTyped' /\ LocalsKnown'
    <3>1. CASE Goto(p, "create")
      <4>1. WorkersTyped'
        BY <1>1, <3>1, GotoTyped DEF StepNames, IndTypeOK, TypeOK
      <4>2. LocalsKnown'
        BY <1>2, <1>b, <3>1
        DEF FindCandidate, At, Goto, IndTypeOK, LocalsKnown, Execution
      <4> QED
        BY <4>1, <4>2
    <3>2. CASE ~Goto(p, "create")
      BY <1>1, <1>2, <1>4, <1>b, <2>2, <3>2, MovesTyped DEF FindCandidate
    <3> QED
      BY <3>1, <3>2
  <2> DEFINE r == [JobOf(p) EXCEPT !.requested = TRUE]
  <2>4. r \in JobRow /\ r.cp # "none"
    BY <1>2, <1>3 DEF JobRow
  <2>5. job' = job \/ job' = [job EXCEPT ![worker[p].job] = r]
    BY <1>b DEF FindCandidate, JobOf
  <2>6. JobsTyped'
    <3>1. job' \in [Jobs -> JobRow]
      BY <1>2, <2>4, <2>5, RowTyped DEF IndTypeOK, TypeOK, JobsTyped
    <3>2. lease' = lease \/ lease' = [lease EXCEPT ![worker[p].job] = p]
      BY <1>b DEF FindCandidate
    <3>3. dep' = dep
      BY <1>b DEF FindCandidate
    <3> QED
      BY <1>2, <3>1, <3>2, <3>3 DEF IndTypeOK, TypeOK, JobsTyped
  <2>7. Begun'
    BY <1>1, <1>2, <1>b, <2>4, <2>5, BegunKept, SameWorker DEF FindCandidate
  <2> QED
    BY <2>1, <2>3, <2>6, <2>7 DEF IndTypeOK, TypeOK
<1>c. CASE CreateServer(p)
  <2>1. worker[p].name \in Names
    BY <1>2, <1>c DEF CreateServer, At, IndTypeOK, LocalsKnown, Execution
  <2>2. \A s \in Fresh : s \in Servers /\ s \in MaybeServer
    BY DEF Fresh, MaybeServer
  <2>3. WorkersTyped' /\ LocalsKnown' /\ Begun'
    BY <1>1, <1>2, <1>4, <1>c, <2>2, MovesTyped, MovesBegun DEF CreateServer, registry
  <2>4. JobsTyped' /\ NodeTyped'
    BY <1>c DEF CreateServer, IndTypeOK, TypeOK, JobsTyped, NodeTyped, registry
  <2>5. OutsideTyped' /\ (node.name <= faults)'
    BY <1>c, <2>1, <2>2
    DEF CreateServer, Creates, Misfortune, IndTypeOK, TypeOK, NodeTyped, OutsideTyped,
        registry
  <2> QED
    BY <2>3, <2>4, <2>5 DEF IndTypeOK, TypeOK
<1>d. CASE RecordServer(p)
  <2>1. worker[p].srv \in MaybeServer
    BY <1>2 DEF Execution
  <2> DEFINE m == Moved(JobOf(p), "provisioned")
             r == [m EXCEPT !.new = worker[p].srv]
  <2>2. m \in JobRow /\ m.cp = "provisioned" /\ "provisioned" \in Checkpoint
    BY <1>5, <1>6
  <2>3. r \in JobRow /\ r.cp \in Checkpoint
    BY <2>1, <2>2 DEF JobRow
  <2>4. OutsideTyped' /\ NodeTyped' /\ (node.name <= faults)'
    BY <1>d DEF RecordServer, IndTypeOK, TypeOK, NodeTyped, OutsideTyped, outside
  <2>5. dep' \in [Jobs -> [0..MaxAttempts -> Deployment]]
    BY <1>d DEF RecordServer, IndTypeOK, TypeOK, JobsTyped
  <2> QED
    BY <1>1, <1>2, <1>4, <1>d, <2>3, <2>4, <2>5, TxStep DEF RecordServer
<1>e. CASE CandidateGone(p)
  <2>1. Moved(JobOf(p), "temp_cleanup") \in JobRow
        /\ Moved(JobOf(p), "temp_cleanup").cp \in Checkpoint
    BY <1>5, <1>6
  <2>2. OutsideTyped' /\ NodeTyped' /\ (node.name <= faults)'
    BY <1>e DEF CandidateGone, IndTypeOK, TypeOK, NodeTyped, OutsideTyped, outside
  <2>3. dep' \in [Jobs -> [0..MaxAttempts -> Deployment]]
    BY <1>e DEF CandidateGone, IndTypeOK, TypeOK, JobsTyped
  <2> QED
    BY <1>1, <1>2, <1>4, <1>e, <2>1, <2>2, <2>3, TxStep DEF CandidateGone
<1> QED
  BY <1>a, <1>b, <1>c, <1>d, <1>e

\* The steps that check its address.
LEMMA CheckingTyped ==
  ASSUME IndTypeOK, NEW p \in Workers,
         ProbeRounds(p) \/ DeleteTemporary(p) \/ RecordTempCleanup(p)
  PROVE  IndTypeOK'
<1> USE ReplacementAssumption
<1>1. ~At(p, "idle")
  BY DEF At, ProbeRounds, DeleteTemporary, RecordTempCleanup
<1>2. /\ worker[p].job \in Jobs /\ JobOf(p) \in JobRow /\ JobOf(p).cp \in Checkpoint
      /\ worker[p] \in Execution /\ None \in MaybeServer
      /\ JobOf(p).attempt \in 0..MaxAttempts
  BY <1>1, BusyRow DEF IndTypeOK, TypeOK, WorkersTyped, MaybeServer
<1>3. {"ip_ok", "ip_bad", "temp_record", "release", "fail", "loop"}
        \subseteq StepNames \ NeedsLocal
  BY DEF StepNames, NeedsLocal
<1>a. CASE ProbeRounds(p)
  <2>1. worker[p].srv \in Servers
    BY <1>2, <1>a DEF ProbeRounds, At, IndTypeOK, LocalsKnown, Execution, MaybeServer
  <2>2. NodeTyped' /\ (node.name <= faults)'
    BY <1>a DEF ProbeRounds, IndTypeOK, TypeOK, NodeTyped
  <2>3. OutsideTyped'
    BY <1>a, <2>1 DEF ProbeRounds, IndTypeOK, TypeOK, OutsideTyped, outside
  <2>4. dep' \in [Jobs -> [0..MaxAttempts -> Deployment]]
    BY <1>a DEF ProbeRounds, IndTypeOK, TypeOK, JobsTyped
  <2>5. Tx(p, JobOf(p)) /\ (Goto(p, "ip_ok") \/ Goto(p, "ip_bad"))
    BY <1>a DEF ProbeRounds
  <2> QED
    BY <1>1, <1>2, <1>3, <2>2, <2>3, <2>4, <2>5, TxStep
<1>b. CASE DeleteTemporary(p)
  <2>1. WorkersTyped' /\ LocalsKnown' /\ Begun'
    BY <1>1, <1>2, <1>3, <1>b, MovesTyped, MovesBegun DEF DeleteTemporary, registry
  <2>2. JobsTyped' /\ NodeTyped'
    BY <1>b DEF DeleteTemporary, IndTypeOK, TypeOK, JobsTyped, NodeTyped, registry
  <2>3. OutsideTyped' /\ (node.name <= faults)'
    BY <1>b
    DEF DeleteTemporary, Deletes, Misfortune, IndTypeOK, TypeOK, NodeTyped,
        OutsideTyped, registry
  <2> QED
    BY <2>1, <2>2, <2>3 DEF IndTypeOK, TypeOK
<1>c. CASE RecordTempCleanup(p)
  <2> DEFINE r == [JobOf(p) EXCEPT !.new = None, !.requested = FALSE]
             exhausted == r.attempt >= MaxAttempts
             m == Moved(r, "provisioning")
             n == IF exhausted THEN r ELSE [m EXCEPT !.attempt = @ + 1]
  <2>1. r \in JobRow /\ r.cp \in Checkpoint /\ r.attempt = JobOf(p).attempt
    BY <1>2 DEF JobRow
  <2>2. "provisioning" \in Checkpoint
    BY DEF Checkpoint, Running
  <2>3. m \in JobRow /\ m.cp = "provisioning"
    BY <2>1, <2>2, RowShapes
  <2>4. m.attempt = r.attempt
    BY <2>1 DEF Moved, JobRow
  <2>5. ~exhausted => m.attempt + 1 \in 0..MaxAttempts
    BY <1>2, <2>1, <2>4
  <2>6. n \in JobRow /\ n.cp \in Checkpoint
    <3>1. CASE exhausted
      BY <2>1, <3>1
    <3>2. CASE ~exhausted
      BY <2>2, <2>3, <2>5, <3>2 DEF JobRow
    <3> QED
      BY <3>1, <3>2
  <2>7. NodeTyped' /\ (node.name <= faults)'
    BY <1>c DEF RecordTempCleanup, IndTypeOK, TypeOK, NodeTyped
  <2>8. OutsideTyped'
    BY <1>c DEF RecordTempCleanup, IndTypeOK, TypeOK, OutsideTyped, outside
  <2>9. dep' \in [Jobs -> [0..MaxAttempts -> Deployment]]
    BY <1>c DEF RecordTempCleanup, IndTypeOK, TypeOK, JobsTyped
  <2>10. Tx(p, n) /\ (Goto(p, "fail") \/ Goto(p, "loop"))
    BY <1>c DEF RecordTempCleanup
  <2> QED
    BY <1>1, <1>2, <1>3, <2>6, <2>7, <2>8, <2>9, <2>10, TxStep
<1> QED
  BY <1>a, <1>b, <1>c

\* The steps that deploy on it.
LEMMA DeployingTyped ==
  ASSUME IndTypeOK, NEW p \in Workers, Deploying(p)
  PROVE  IndTypeOK'
<1> USE ReplacementAssumption
<1>1. ~At(p, "idle")
  BY DEF At, Deploying, StageIpVerified, StageDeploying, Deploy, Reverify, RecordDeployment
<1>2. /\ worker[p].job \in Jobs /\ JobOf(p) \in JobRow /\ JobOf(p).cp \in Checkpoint
      /\ worker[p] \in Execution /\ worker \in [Workers -> Execution]
      /\ None \in MaybeServer /\ JobOf(p).attempt \in 0..MaxAttempts
      /\ JobOf(p).new \in MaybeServer
  BY <1>1, BusyRow DEF IndTypeOK, TypeOK, WorkersTyped, MaybeServer, JobRow
<1>3. {"deploy_record", "release", "fail", "loop"} \subseteq StepNames \ NeedsLocal
  BY DEF StepNames, NeedsLocal
<1>4. {"deploying", "node_verified"} \subseteq Checkpoint /\ "none" \notin Checkpoint
  BY DEF Checkpoint, Running, Terminal
<1>5. dep \in [Jobs -> [0..MaxAttempts -> Deployment]]
  BY DEF IndTypeOK, TypeOK, JobsTyped
<1>a. CASE StageIpVerified(p)
  <2> DEFINE a == JobOf(p).attempt
             d == IF dep[worker[p].job][a] = NoDep
                  THEN [st |-> "pending", vps |-> JobOf(p).new]
                  ELSE dep[worker[p].job][a]
  <2>1. Moved(JobOf(p), "deploying") \in JobRow
        /\ Moved(JobOf(p), "deploying").cp = "deploying"
    BY <1>2, <1>4, RowShapes
  <2>2. d \in Deployment
    BY <1>2, <1>5 DEF Deployment
  <2>3. dep' \in [Jobs -> [0..MaxAttempts -> Deployment]]
    BY <1>2, <1>5, <1>a, <2>2 DEF StageIpVerified
  <2>4. NodeTyped' /\ (node.name <= faults)'
    BY <1>a DEF StageIpVerified, IndTypeOK, TypeOK, NodeTyped, NodeState, InWorkflow
  <2>5. OutsideTyped'
    BY <1>a DEF StageIpVerified, IndTypeOK, TypeOK, OutsideTyped, outside
  <2>6. Tx(p, Moved(JobOf(p), "deploying")) /\ Goto(p, "loop")
    BY <1>a DEF StageIpVerified
  <2> QED
    BY <1>1, <1>2, <1>3, <1>4, <2>1, <2>3, <2>4, <2>5, <2>6, TxStep
<1>b. CASE StageDeploying(p)
  <2>1. WorkersTyped'
    BY <1>2, <1>b, ZenonT(60)
    DEF StageDeploying, Resumed, IndTypeOK, TypeOK, WorkersTyped, NodeTyped, Execution, StepNames
  <2>2. LocalsKnown'
    BY <1>2, <1>b DEF StageDeploying, Resumed, IndTypeOK, LocalsKnown, Execution
  <2>3. JobsTyped'
    BY <1>1, <1>2, <1>b, TxTyped DEF StageDeploying, IndTypeOK, TypeOK, JobsTyped
  <2>4. NodeTyped' /\ OutsideTyped' /\ (node.name <= faults)'
    BY <1>b DEF StageDeploying, IndTypeOK, TypeOK, NodeTyped, OutsideTyped, outside
  <2>5. \A q \in Workers : worker'[q].pc # "idle" =>
          worker[q].pc # "idle" /\ worker'[q].job = worker[q].job
    BY <1>1, <1>2, <1>b DEF StageDeploying, Resumed, At, Execution
  <2>6. job' = [job EXCEPT ![worker[p].job] = JobOf(p)]
    BY <1>b DEF StageDeploying, Tx
  <2>7. Begun'
    BY <1>2, <1>4, <2>5, <2>6, BegunKept
  <2> QED
    BY <2>1, <2>2, <2>3, <2>4, <2>7 DEF IndTypeOK, TypeOK
<1>c. CASE Deploy(p)
  <2>1. UNCHANGED job /\ (Goto(p, "deploy_record") \/ Goto(p, "fail"))
    BY <1>c DEF Deploy
  <2>2. WorkersTyped' /\ LocalsKnown' /\ Begun'
    BY <1>1, <1>2, <1>3, <2>1, MovesTyped, MovesBegun
  <2>3. NodeTyped' /\ OutsideTyped' /\ (node.name <= faults)'
    BY <1>c DEF Deploy, IndTypeOK, TypeOK, NodeTyped, OutsideTyped, outside
  <2>4. UNCHANGED dep \/ DeployEnds(p, "succeeded") \/ DeployEnds(p, "failed")
    BY <1>c DEF Deploy
  <2>5. dep' \in [Jobs -> [0..MaxAttempts -> Deployment]]
    <3> SUFFICES ASSUME NEW st \in {"succeeded", "failed"}, DeployEnds(p, st)
                 PROVE  dep' \in [Jobs -> [0..MaxAttempts -> Deployment]]
      BY <1>5, <2>4
    <3> DEFINE j == worker[p].job
               a == JobOf(p).attempt
               d == [dep[j][a] EXCEPT !.st = st]
               row == [dep[j] EXCEPT ![a] = d]
    <3>1. dep[j][a] \in Deployment
      BY <1>2, <1>5
    <3>2. d \in Deployment
      BY <3>1 DEF Deployment
    <3>3. row \in [0..MaxAttempts -> Deployment]
      BY <1>2, <1>5, <3>2
    <3>4. dep' = [dep EXCEPT ![j] = row]
      BY DEF DeployEnds
    <3> QED
      BY <1>2, <1>5, <3>3, <3>4
  <2>6. lease' = lease
        \/ lease' = [lease EXCEPT ![worker[p].job] =
                       IF Holdable(p, worker[p].job) THEN p ELSE @]
    BY <1>c DEF Deploy, RenewIfHoldable
  <2>7. lease' \in [Jobs -> Workers \cup {None, Dead}]
    BY <1>2, <2>6 DEF IndTypeOK, TypeOK, JobsTyped
  <2>8. JobsTyped'
    BY <2>1, <2>5, <2>7 DEF IndTypeOK, TypeOK, JobsTyped
  <2> QED
    BY <2>2, <2>3, <2>8 DEF IndTypeOK, TypeOK
<1>e. CASE Reverify(p)
  <2>1. UNCHANGED job /\ Goto(p, "deploy_record")
    BY <1>e DEF Reverify
  <2>2. WorkersTyped' /\ LocalsKnown' /\ Begun'
    BY <1>1, <1>2, <1>3, <2>1, MovesTyped, MovesBegun
  <2>3. JobsTyped' /\ NodeTyped' /\ OutsideTyped' /\ (node.name <= faults)'
    BY <1>e DEF Reverify, IndTypeOK, TypeOK, JobsTyped, NodeTyped, OutsideTyped, outside
  <2> QED
    BY <2>2, <2>3 DEF IndTypeOK, TypeOK
<1>d. CASE RecordDeployment(p)
  <2> DEFINE r == [JobOf(p) EXCEPT !.cp = "node_verified", !.deployVerified = TRUE]
  <2>1. r \in JobRow /\ r.cp # "none"
    BY <1>2, <1>4 DEF JobRow
  <2>2. job' = [job EXCEPT ![worker[p].job] = r]
    BY <1>2, <1>d DEF RecordDeployment, JobOf, IndTypeOK, TypeOK, JobsTyped
  <2>3. Goto(p, "loop")
    BY <1>d DEF RecordDeployment
  <2>4. WorkersTyped' /\ LocalsKnown'
    BY <1>1, <1>2, <1>3, <2>3, MovesTyped
  <2>5. Begun'
    BY <1>1, <1>2, <2>1, <2>2, <2>3, BegunKept, SameWorker
  <2>6. JobsTyped'
    BY <1>2, <1>d, <2>1, <2>2, RowTyped
    DEF RecordDeployment, IndTypeOK, TypeOK, JobsTyped
  <2>7. NodeTyped' /\ (node.name <= faults)'
    BY <1>d DEF RecordDeployment, IndTypeOK, TypeOK, NodeTyped, NodeState, InWorkflow
  <2>8. OutsideTyped'
    BY <1>d DEF RecordDeployment, IndTypeOK, TypeOK, OutsideTyped, outside
  <2> QED
    BY <2>4, <2>5, <2>6, <2>7, <2>8 DEF IndTypeOK, TypeOK
<1> QED
  BY <1>a, <1>b, <1>c, <1>d, <1>e DEF Deploying

\* The steps that switch the Master.
LEMMA SwitchingTyped ==
  ASSUME IndTypeOK, NEW p \in Workers,
         SnapshotMaster(p) \/ UpdateMaster(p) \/ FinalProbe(p) \/ Rollback(p)
  PROVE  IndTypeOK'
<1> USE ReplacementAssumption
<1>1. ~At(p, "idle")
  BY DEF At, SnapshotMaster, UpdateMaster, FinalProbe, Rollback
<1>2. /\ worker[p].job \in Jobs /\ JobOf(p) \in JobRow /\ JobOf(p).cp \in Checkpoint
      /\ worker[p] \in Execution /\ None \in MaybeServer
  BY <1>1, BusyRow DEF IndTypeOK, TypeOK, WorkersTyped, MaybeServer
<1>3. {"master_test", "master_record", "final_record", "rollback", "rollback_verify",
       "release", "fail"} \subseteq StepNames \ NeedsLocal
  BY DEF StepNames, NeedsLocal
<1>4. JobOf(p).cp # "none"
  BY <1>2 DEF Checkpoint, Running, Terminal
<1>a. CASE SnapshotMaster(p)
  <2> DEFINE r == [JobOf(p) EXCEPT !.snap = IF @ = None THEN master.addr ELSE @]
  <2>1. master.addr \in MaybeServer
    BY DEF IndTypeOK, TypeOK, OutsideTyped, MaybeServer
  <2>2. r \in JobRow /\ r.cp # "none"
    BY <1>2, <1>4, <2>1 DEF JobRow
  <2>3. job' = [job EXCEPT ![worker[p].job] = r]
    BY <1>a DEF SnapshotMaster, JobOf
  <2>4. Goto(p, "master_test")
    BY <1>a DEF SnapshotMaster
  <2>5. WorkersTyped' /\ LocalsKnown'
    BY <1>1, <1>2, <1>3, <2>4, MovesTyped
  <2>6. Begun'
    BY <1>1, <1>2, <2>2, <2>3, <2>4, BegunKept, SameWorker
  <2>7. JobsTyped'
    BY <1>2, <1>a, <2>2, <2>3, RowTyped DEF SnapshotMaster, IndTypeOK, TypeOK, JobsTyped
  <2>8. NodeTyped' /\ OutsideTyped' /\ (node.name <= faults)'
    BY <1>a DEF SnapshotMaster, IndTypeOK, TypeOK, NodeTyped, OutsideTyped, outside
  <2> QED
    BY <2>5, <2>6, <2>7, <2>8 DEF IndTypeOK, TypeOK
<1>b. CASE UpdateMaster(p)
  <2>1. worker[p].srv \in Servers
    BY <1>2, <1>b DEF UpdateMaster, At, IndTypeOK, LocalsKnown, Execution, MaybeServer
  <2>2. WorkersTyped' /\ LocalsKnown' /\ Begun'
    BY <1>1, <1>2, <1>3, <1>b, MovesTyped, MovesBegun
    DEF UpdateMaster, Interrupted, registry
  <2>3. JobsTyped' /\ NodeTyped'
    BY <1>b DEF UpdateMaster, IndTypeOK, TypeOK, JobsTyped, NodeTyped, registry
  <2>4. OutsideTyped' /\ (node.name <= faults)'
    BY <1>b, <2>1
    DEF UpdateMaster, Interrupted, Serving, Misfortune, IndTypeOK, TypeOK, NodeTyped,
        OutsideTyped, registry
  <2> QED
    BY <2>2, <2>3, <2>4 DEF IndTypeOK, TypeOK
<1>c. CASE FinalProbe(p)
  <2>1. worker[p].srv \in Servers
    BY <1>2, <1>c DEF FinalProbe, At, IndTypeOK, LocalsKnown, Execution, MaybeServer
  <2>2. WorkersTyped' /\ LocalsKnown' /\ Begun'
    BY <1>1, <1>2, <1>3, <1>c, MovesTyped, MovesBegun DEF FinalProbe, registry
  <2>3. JobsTyped' /\ NodeTyped' /\ (node.name <= faults)'
    BY <1>c DEF FinalProbe, IndTypeOK, TypeOK, JobsTyped, NodeTyped, registry
  <2>4. OutsideTyped'
    BY <1>c, <2>1 DEF FinalProbe, IndTypeOK, TypeOK, OutsideTyped, registry, outside
  <2> QED
    BY <2>2, <2>3, <2>4 DEF IndTypeOK, TypeOK
<1>d. CASE Rollback(p)
  <2>1. JobOf(p).snap \in Servers /\ node.host \in Servers
    BY <1>2, <1>d
    DEF Rollback, At, Commits, NeedsSnap, JobRow, MaybeServer, IndTypeOK, TypeOK, NodeTyped
  <2>2. WorkersTyped' /\ LocalsKnown' /\ Begun'
    BY <1>1, <1>2, <1>3, <1>d, MovesTyped, MovesBegun DEF Rollback, Interrupted, registry
  <2>3. JobsTyped' /\ NodeTyped'
    BY <1>d DEF Rollback, IndTypeOK, TypeOK, JobsTyped, NodeTyped, registry
  <2>4. OutsideTyped' /\ (node.name <= faults)'
    BY <1>d, <2>1
    DEF Rollback, Interrupted, Misfortune, IndTypeOK, TypeOK, NodeTyped, OutsideTyped,
        registry
  <2> QED
    BY <2>2, <2>3, <2>4 DEF IndTypeOK, TypeOK
<1> QED
  BY <1>a, <1>b, <1>c, <1>d

\* The steps that clean up.
LEMMA CleaningTyped ==
  ASSUME IndTypeOK, NEW p \in Workers, DeleteOldVps(p) \/ Finish(p)
  PROVE  IndTypeOK'
<1> USE ReplacementAssumption
<1>1. ~At(p, "idle")
  BY DEF At, DeleteOldVps, Finish
<1>2. /\ worker[p].job \in Jobs /\ JobOf(p) \in JobRow /\ JobOf(p).cp \in Checkpoint
      /\ None \in MaybeServer
  BY <1>1, BusyRow DEF MaybeServer
<1>3. {"finish", "release", "loop"} \subseteq StepNames \ NeedsLocal
  BY DEF StepNames, NeedsLocal
<1>a. CASE DeleteOldVps(p)
  <2>1. WorkersTyped' /\ LocalsKnown' /\ Begun'
    BY <1>1, <1>2, <1>3, <1>a, MovesTyped, MovesBegun DEF DeleteOldVps, registry
  <2>2. JobsTyped' /\ NodeTyped'
    BY <1>a DEF DeleteOldVps, IndTypeOK, TypeOK, JobsTyped, NodeTyped, registry
  <2>3. OutsideTyped' /\ (node.name <= faults)'
    BY <1>a
    DEF DeleteOldVps, Deletes, Misfortune, IndTypeOK, TypeOK, NodeTyped, OutsideTyped,
        registry
  <2> QED
    BY <2>1, <2>2, <2>3 DEF IndTypeOK, TypeOK
<1>b. CASE Finish(p)
  <2>1. JobOf(p).new \in Servers
    BY <1>2, <1>b DEF Finish, At, Tx, Commits, NeedsNew, JobRow, MaybeServer
  <2>2. "completed" \in Checkpoint
    BY DEF Checkpoint, Terminal
  <2>3. Moved(JobOf(p), "completed") \in JobRow
        /\ Moved(JobOf(p), "completed").cp \in Checkpoint
    BY <1>2, <2>2, RowShapes
  <2>4. NodeTyped' /\ (node.name <= faults)'
    BY <1>b, <2>1 DEF Finish, IndTypeOK, TypeOK, NodeTyped, NodeState, Monitored
  <2>5. OutsideTyped'
    BY <1>b DEF Finish, IndTypeOK, TypeOK, OutsideTyped, outside
  <2>6. dep' \in [Jobs -> [0..MaxAttempts -> Deployment]]
    BY <1>b DEF Finish, IndTypeOK, TypeOK, JobsTyped
  <2>7. Tx(p, Moved(JobOf(p), "completed")) /\ Goto(p, "loop")
    BY <1>b DEF Finish
  <2> QED
    BY <1>1, <1>2, <1>3, <2>3, <2>4, <2>5, <2>6, <2>7, TxStep
<1> QED
  BY <1>a, <1>b

\* Every step of an execution.
LEMMA StepTyped ==
  ASSUME IndTypeOK, NEW p \in Workers, Step(p)
  PROVE  IndTypeOK'
<1>1. CASE Resuming(p)
  BY <1>1, ResumingTyped
<1>2. CASE Provisioning(p)
  BY <1>2, ProvisioningTyped, PlainStages, QuietStages DEF Provisioning
<1>3. CASE Checking(p)
  BY <1>3, CheckingTyped, PlainStages, TargetStages DEF Checking
<1>4. CASE Deploying(p)
  BY <1>4, DeployingTyped
<1>5. CASE Switching(p)
  BY <1>5, SwitchingTyped, PlainStages, QuietStages, TargetStages DEF Switching
<1>6. CASE Cleaning(p)
  BY <1>6, CleaningTyped, PlainStages DEF Cleaning
<1> QED
  BY <1>1, <1>2, <1>3, <1>4, <1>5, <1>6 DEF Step

\* Every step keeps the invariant.
LEMMA NextTyped == IndTypeOK /\ [Next]_vars => IndTypeOK'
<1> SUFFICES ASSUME IndTypeOK, [Next]_vars PROVE IndTypeOK'
  OBVIOUS
<1>1. CASE UNCHANGED vars
  <2>1. WorkersTyped' /\ LocalsKnown' /\ Begun'
    BY <1>1, BystanderTyped DEF vars
  <2>2. JobsTyped' /\ NodeTyped' /\ OutsideTyped' /\ (node.name <= faults)'
    BY <1>1 DEF vars, IndTypeOK, TypeOK, JobsTyped, NodeTyped, OutsideTyped
  <2> QED
    BY <2>1, <2>2 DEF IndTypeOK, TypeOK
<1>2. CASE Next
  BY <1>2, StepTyped, AcquireTyped, OperatorTyped, EnvironmentTyped DEF Next
<1> QED
  BY <1>1, <1>2

\* Every behaviour keeps the inductive form of the type invariant: the theorems
\* below take the shape of a reachable state from here.
THEOREM TypeInductive == Spec => []IndTypeOK
BY InitTyped, NextTyped, PTL DEF Spec

\* The rows, the outside world and the executions keep their shape whatever
\* fails: no execution indexes a table by a server, name or job it lacks, the
\* attempt counter stays within max_replacement_attempts, and a resume() that
\* is under way has a job.
THEOREM TypeCorrect == Spec => []TypeOK
<1>1. IndTypeOK => TypeOK
  BY DEF IndTypeOK
<1> QED
  BY <1>1, TypeInductive, PTL

------------------------------------------------------------------------------
(* Leases.                                                                  *)

\* What a step of p inside resume() may do to the leases: renew its own job's.
LeaseKept(p) ==
  \/ lease' = lease
  \/ /\ Holdable(p, worker[p].job)
     /\ lease' = [lease EXCEPT ![worker[p].job] = p]

\* Nobody starts an execution, or changes the job of one.
SameJobs ==
  \A q \in Workers : worker'[q].pc # "idle" =>
    worker[q].pc # "idle" /\ worker'[q].job = worker[q].job

\* A commit leaves a lease with its holder.
LEMMA CommitKeepsLease ==
  ASSUME IndTypeOK, NEW p \in Workers, ~At(p, "idle"), Commits(p), KeepsLease(p)
  PROVE  LeaseKept(p)
<1>1. worker[p].job \in Jobs /\ lease \in [Jobs -> Workers \cup {None, Dead}]
  BY BusyRow DEF IndTypeOK, TypeOK, JobsTyped
<1>2. CASE worker[p].pc \in Renewing
  BY <1>2 DEF Commits, KeepsLease, LeaseKept
<1>3. CASE worker[p].pc \notin Renewing
  BY <1>1, <1>3 DEF KeepsLease, LeaseKept
<1> QED
  BY <1>2, <1>3

\* Provisioning leaves leases alone.
LEMMA ProvisioningKeepsLease ==
  ASSUME IndTypeOK, NEW p \in Workers, Provisioning(p)
  PROVE  LeaseKept(p) /\ SameJobs
<1>1. ~At(p, "idle")
  BY DEF At, Provisioning, StageCreated, StageProvisioning, FindCandidate, CreateServer,
     RecordServer, StageProvisioned, ServerReady, CandidateGone, RecordRunning, BootGrace
<1>2. LeaseKept(p)
  <2>1. CASE FindCandidate(p)
    BY <2>1 DEF FindCandidate, LeaseKept
  <2>2. CASE ~FindCandidate(p)
    BY <1>1, <2>2, CommitKeepsLease
    DEF Provisioning, StageCreated, StageProvisioning, CreateServer, RecordServer,
        StageProvisioned, ServerReady, CandidateGone, RecordRunning, BootGrace, Tx,
        LeaseKept
  <2> QED
    BY <2>1, <2>2
<1>3. SameJobs
  <2>1. CASE StageProvisioning(p)
    BY <1>1, <2>1
    DEF StageProvisioning, Goto, SameJobs, At, IndTypeOK, TypeOK, WorkersTyped, Execution
  <2>2. CASE ~StageProvisioning(p)
    BY <1>1, <2>2, SameWorker
    DEF Provisioning, StageCreated, FindCandidate, CreateServer, RecordServer,
        StageProvisioned, ServerReady, CandidateGone, RecordRunning, BootGrace, SameJobs
  <2> QED
    BY <2>1, <2>2
<1> QED
  BY <1>2, <1>3

\* Checking leaves leases alone.
LEMMA CheckingKeepsLease ==
  ASSUME IndTypeOK, NEW p \in Workers, Checking(p)
  PROVE  LeaseKept(p) /\ SameJobs
<1>1. ~At(p, "idle")
  BY DEF At, Checking, StageCheckingIp, ProbeRounds, PassIp, RejectIp, StageTempCleanup,
     DeleteTemporary, RecordTempCleanup
<1>2. LeaseKept(p)
  BY <1>1, CommitKeepsLease
  DEF Checking, StageCheckingIp, ProbeRounds, PassIp, RejectIp, StageTempCleanup,
      DeleteTemporary, RecordTempCleanup, Tx, LeaseKept
<1>3. SameJobs
  BY <1>1, SameWorker
  DEF Checking, StageCheckingIp, ProbeRounds, PassIp, RejectIp, StageTempCleanup,
      DeleteTemporary, RecordTempCleanup, SameJobs
<1> QED
  BY <1>2, <1>3

\* Deploying leaves leases alone.
LEMMA DeployingKeepsLease ==
  ASSUME IndTypeOK, NEW p \in Workers, Deploying(p)
  PROVE  LeaseKept(p) /\ SameJobs
<1>1. ~At(p, "idle")
  BY DEF At, Deploying, StageIpVerified, StageDeploying, Deploy, Reverify, RecordDeployment
<1>2. LeaseKept(p)
  <2>1. CASE Deploy(p)
    <3>1. \/ lease' = lease
          \/ lease' = [lease EXCEPT ![worker[p].job] =
                          IF Holdable(p, worker[p].job) THEN p ELSE @]
      BY <2>1 DEF Deploy, RenewIfHoldable
    <3>2. lease \in [Jobs -> Workers \cup {None, Dead}]
      BY DEF IndTypeOK, TypeOK, JobsTyped
    <3> QED
      BY <3>1, <3>2 DEF LeaseKept
  <2>2. CASE ~Deploy(p)
    BY <1>1, <2>2, CommitKeepsLease
    DEF Deploying, StageIpVerified, StageDeploying, Reverify, RecordDeployment, Tx, LeaseKept
  <2> QED
    BY <2>1, <2>2
<1>3. SameJobs
  <2>1. CASE StageDeploying(p)
    BY <1>1, <2>1
    DEF StageDeploying, Resumed, SameJobs, At, IndTypeOK, TypeOK, WorkersTyped, Execution
  <2>2. CASE ~StageDeploying(p)
    BY <1>1, <2>2, SameWorker
    DEF Deploying, StageIpVerified, Deploy, Reverify, RecordDeployment, SameJobs
  <2> QED
    BY <2>1, <2>2
<1> QED
  BY <1>2, <1>3

\* Switching leaves leases alone.
LEMMA SwitchingKeepsLease ==
  ASSUME IndTypeOK, NEW p \in Workers, Switching(p)
  PROVE  LeaseKept(p) /\ SameJobs
<1>1. ~At(p, "idle")
  BY DEF At, Switching, StageNodeVerified, SnapshotMaster, TestMaster,
     StageMasterUpdating, UpdateMaster, RecordMasterUpdate, StageMasterUpdated,
     StageMasterVerifying, VerifyMaster, RecordMasterVerified, StageMasterVerified,
     StageFinalCheck, FinalProbe, RecordFinal, Rollback, RollbackVerified
<1>2. LeaseKept(p)
  BY <1>1, CommitKeepsLease
  DEF Switching, StageNodeVerified, SnapshotMaster, TestMaster,
     StageMasterUpdating, UpdateMaster, RecordMasterUpdate, StageMasterUpdated,
     StageMasterVerifying, VerifyMaster, RecordMasterVerified, StageMasterVerified,
     StageFinalCheck, FinalProbe, RecordFinal, Rollback, RollbackVerified, Tx, LeaseKept
<1>3. SameJobs
  BY <1>1, SameWorker
  DEF Switching, StageNodeVerified, SnapshotMaster, TestMaster,
     StageMasterUpdating, UpdateMaster, RecordMasterUpdate, StageMasterUpdated,
     StageMasterVerifying, VerifyMaster, RecordMasterVerified, StageMasterVerified,
     StageFinalCheck, FinalProbe, RecordFinal, Rollback, RollbackVerified, Interrupted,
     SameJobs
<1> QED
  BY <1>2, <1>3

\* Cleaning leaves leases alone.
LEMMA CleaningKeepsLease ==
  ASSUME IndTypeOK, NEW p \in Workers, Cleaning(p)
  PROVE  LeaseKept(p) /\ SameJobs
<1>1. ~At(p, "idle")
  BY DEF At, Cleaning, StageFinalVerified, StageOldVpsCleanup, DeleteOldVps, Finish
<1>2. LeaseKept(p)
  BY <1>1, CommitKeepsLease
  DEF Cleaning, StageFinalVerified, StageOldVpsCleanup, DeleteOldVps, Finish, Tx, LeaseKept
<1>3. SameJobs
  BY <1>1, SameWorker
  DEF Cleaning, StageFinalVerified, StageOldVpsCleanup, DeleteOldVps, Finish, SameJobs
<1> QED
  BY <1>2, <1>3

\* The only step inside resume() that lets a lease go is its release.
LEMMA StepKeepsLease ==
  ASSUME IndTypeOK, NEW p \in Workers, Step(p), ~Release(p)
  PROVE  LeaseKept(p) /\ SameJobs
<1>1. CASE Resuming(p)
  <2>1. CASE Dispatch(p)
    BY <2>1
    DEF Dispatch, At, Asleep, LeaseKept, SameJobs, IndTypeOK, TypeOK, WorkersTyped
  <2>2. CASE ~Dispatch(p)
    <3>1. ~At(p, "idle")
      BY <1>1, <2>2
      DEF Resuming, Defer, Deferrable, Break, Fallible, Refused, Transactions, Renewing,
          NeedsNew, NeedsSnap, Target, FailJob, At
    <3>2. lease' = lease /\ (Goto(p, "release") \/ Goto(p, "fail"))
      BY <1>1, <2>2 DEF Resuming, Defer, Break, Refused, Raises, FailJob
    <3> QED
      BY <3>1, <3>2, SameWorker DEF LeaseKept, SameJobs
  <2> QED
    BY <2>1, <2>2
<1> QED
  BY <1>1, ProvisioningKeepsLease, CheckingKeepsLease, DeployingKeepsLease,
     SwitchingKeepsLease, CleaningKeepsLease DEF Step

\* Whoever is inside resume() holds its job's lease.
HoldsLease == \A p \in Workers : ~At(p, "idle") => lease[worker[p].job] = p

\* Two executions do not hold one lease.
LEMMA HoldersDiffer ==
  ASSUME HoldsLease
  PROVE  LeaseMutex
BY DEF HoldsLease, LeaseMutex

\* Every step keeps the lease with its holder.
LEMMA NextHoldsLease ==
  ASSUME IndTypeOK, HoldsLease, [Next]_vars, "lapse" \notin Faults
  PROVE  HoldsLease'
<1> USE ReplacementAssumption
<1> USE DEF At
<1>1. /\ lease \in [Jobs -> Workers \cup {None, Dead}]
      /\ worker \in [Workers -> Execution]
      /\ \A q \in Workers : worker[q].pc # "idle" => worker[q].job \in Jobs
  BY DEF IndTypeOK, TypeOK, JobsTyped, WorkersTyped
<1>2. ASSUME NEW p \in Workers, Step(p), ~Release(p) PROVE HoldsLease'
  <2>1. LeaseKept(p) /\ SameJobs
    BY <1>2, StepKeepsLease
  <2>2. CASE lease' = lease
    BY <2>1, <2>2 DEF HoldsLease, SameJobs
  <2>3. CASE /\ Holdable(p, worker[p].job)
             /\ lease' = [lease EXCEPT ![worker[p].job] = p]
    BY <1>1, <2>1, <2>3 DEF HoldsLease, SameJobs, Holdable
  <2> QED
    BY <2>1, <2>2, <2>3 DEF LeaseKept
<1>3. ASSUME NEW p \in Workers, Release(p) PROVE HoldsLease'
  BY <1>1, <1>3 DEF Release, Asleep, HoldsLease
<1>4. ASSUME NEW p \in Workers, Crash(p) PROVE HoldsLease'
  BY <1>1, <1>4 DEF Crash, Asleep, HoldsLease
<1>5. ASSUME NEW p \in Workers, NEW j \in Jobs, Acquire(p, j) PROVE HoldsLease'
  BY <1>1, <1>5 DEF Acquire, Holdable, Asleep, HoldsLease
<1>6. ASSUME NEW j \in Jobs, Expire(j) PROVE HoldsLease'
  BY <1>1, <1>6 DEF Expire, HoldsLease
<1>7. ASSUME NEW p \in Workers, Lapse(p) PROVE HoldsLease'
  BY <1>7 DEF Lapse, Misfortune
<1>8. CASE UNCHANGED <<lease, worker>>
  BY <1>8 DEF HoldsLease
<1>9. ASSUME Operator PROVE UNCHANGED <<lease, worker>>
  BY <1>9 DEF Operator, Trigger, Cancel, CheckDisable, CommitDisable, Enable, Rename
<1>10. ASSUME Environment,
              \A p \in Workers : ~Crash(p) /\ ~Lapse(p), \A j \in Jobs : ~Expire(j)
       PROVE  UNCHANGED <<lease, worker>>
  BY <1>10 DEF Environment, Settle, LoseServer, MonitorNode
<1>11. CASE UNCHANGED vars
  BY <1>8, <1>11 DEF vars
<1> QED
  BY <1>2, <1>3, <1>4, <1>5, <1>6, <1>7, <1>8, <1>9, <1>10, <1>11 DEF Next

\* One execution per job at a time, whatever crashes, resumes or is retried, as
\* long as no lease runs out under a live holder: the assumption that the
\* configuration (workflow_lease_seconds against the waits between two
\* renewals) has to discharge.
THEOREM MutualExclusion ==
  ASSUME "lapse" \notin Faults
  PROVE  Spec => []LeaseMutex
<1>1. Init => HoldsLease
  BY DEF Init, HoldsLease, At, Asleep
<1>2. IndTypeOK /\ HoldsLease /\ [Next]_vars => HoldsLease'
  BY NextHoldsLease
<1>3. HoldsLease => LeaseMutex
  BY HoldersDiffer
<1> QED
  BY <1>1, <1>2, <1>3, TypeInductive, PTL DEF Spec

\* Even when leases do run out: an execution that lost its lease never takes it
\* back from, or releases it under, the one that holds it now.
THEOREM NobodyTakesALease == Spec => LeaseTakenByNobody
<1> USE ReplacementAssumption
<1>1. ASSUME IndTypeOK, Next, NEW j \in Jobs, NEW p \in Workers,
             lease[j] = p, lease'[j] # p
      PROVE  faults' > faults \/ (At(p, "release") /\ worker'[p].pc = "idle")
  <2>1. /\ lease \in [Jobs -> Workers \cup {None, Dead}] /\ faults \in Nat
        /\ worker \in [Workers -> Execution]
        /\ \A q \in Workers : worker[q].pc # "idle" => worker[q].job \in Jobs
    BY <1>1 DEF IndTypeOK, TypeOK, JobsTyped, WorkersTyped, OutsideTyped
  <2>2. ASSUME NEW q \in Workers, Step(q), ~Release(q) PROVE FALSE
    <3>1. LeaseKept(q)
      BY <1>1, <2>2, StepKeepsLease
    <3> QED
      BY <1>1, <2>1, <3>1 DEF LeaseKept, Holdable
  <2>3. ASSUME NEW q \in Workers, Release(q)
        PROVE  At(p, "release") /\ worker'[p].pc = "idle"
    BY <1>1, <2>1, <2>3 DEF Release, At, Asleep
  <2>4. ASSUME NEW q \in Workers, Crash(q) \/ Lapse(q) PROVE faults' > faults
    BY <2>1, <2>4 DEF Crash, Lapse, Misfortune
  <2>5. ASSUME NEW q \in Workers, NEW i \in Jobs, Acquire(q, i) PROVE FALSE
    BY <1>1, <2>1, <2>5 DEF Acquire, Holdable
  <2>6. ASSUME NEW i \in Jobs, Expire(i) PROVE FALSE
    BY <1>1, <2>1, <2>6 DEF Expire
  <2>7. ASSUME Operator PROVE FALSE
    BY <1>1, <2>7 DEF Operator, Trigger, Cancel, CheckDisable, CommitDisable, Enable, Rename
  <2>8. ASSUME Environment,
               \A q \in Workers : ~Crash(q) /\ ~Lapse(q), \A i \in Jobs : ~Expire(i)
        PROVE  FALSE
    BY <1>1, <2>8 DEF Environment, Settle, LoseServer, MonitorNode
  <2> QED
    BY <1>1, <2>2, <2>3, <2>4, <2>5, <2>6, <2>7, <2>8 DEF Next
<1>2. IndTypeOK /\ [Next]_vars =>
        [\A j \in Jobs, p \in Workers :
           lease[j] = p /\ lease'[j] # p
             => faults' > faults \/ (At(p, "release") /\ worker'[p].pc = "idle")]_vars
  BY <1>1
<1> QED
  BY <1>2, TypeInductive, PTL DEF Spec, LeaseTakenByNobody

====
