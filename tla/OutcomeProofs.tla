---------------------------- MODULE OutcomeProofs ----------------------------
(****************************************************************************)
(* What a replacement leaves behind, for every number of jobs, executions,  *)
(* servers, attempts and faults, as long as no lease runs out under a live  *)
(* holder: no node that nobody owns, as long as no job is cancelled, and    *)
(* one temporary server per job, as long as the node is not renamed.        *)
(****************************************************************************)
EXTENDS SwapProofs

------------------------------------------------------------------------------
(* What one step does to the job rows.                                      *)

\* A step of p touches the row of its own job and nobody else's execution.
Alone(p) ==
  /\ \A q \in Workers \ {p} : worker'[q] = worker[q]
  /\ \A k \in Jobs \ {Of(p)} : job'[k] = job[k]
  /\ worker'[p].pc # "idle" => worker'[p].job = worker[p].job

\* The step's transaction takes the row to checkpoint t and leaves what follows.
Onto(p, t) ==
  LET r == job[Of(p)]  q == job'[Of(p)] IN
  /\ <<worker[p].pc, t>> \in Target /\ Commits(p)
  /\ q.cp = t /\ q.slot = r.slot
  /\ q.new = r.new /\ q.attempt = r.attempt /\ q.requested = r.requested

\* Steps that only read the row, or do not touch it.
SameRow(p) ==
  \/ Dispatch(p) \/ Defer(p) \/ Break(p) \/ Refused(p) \/ Release(p)
  \/ CreateServer(p) \/ StageProvisioned(p) \/ ServerReady(p) \/ RecordRunning(p)
  \/ StageCheckingIp(p) \/ ProbeRounds(p) \/ StageTempCleanup(p) \/ DeleteTemporary(p)
  \/ StageDeploying(p) \/ Deploy(p) \/ Reverify(p)
  \/ StageNodeVerified(p) \/ StageMasterUpdating(p) \/ UpdateMaster(p)
  \/ StageMasterVerifying(p) \/ VerifyMaster(p) \/ StageFinalCheck(p) \/ FinalProbe(p)
  \/ Rollback(p) \/ RollbackVerified(p) \/ StageOldVpsCleanup(p) \/ DeleteOldVps(p)

\* Steps that move the row along an edge, and at most set a gate.
MovedRow(p) ==
  \/ CandidateGone(p) \/ BootGrace(p) \/ PassIp(p) \/ RejectIp(p) \/ StageIpVerified(p)
  \/ TestMaster(p) \/ RecordMasterUpdate(p) \/ StageMasterUpdated(p)
  \/ RecordMasterVerified(p) \/ StageMasterVerified(p) \/ RecordFinal(p)
  \/ StageFinalVerified(p)

\* The remaining steps rewrite more of it.
OtherRow(p) ==
  \/ StageCreated(p) \/ StageProvisioning(p) \/ FindCandidate(p) \/ RecordServer(p)
  \/ RecordTempCleanup(p) \/ RecordDeployment(p) \/ SnapshotMaster(p)
  \/ Finish(p) \/ FailJob(p)

\* These are all the steps of an execution.
LEMMA RowCases ==
  ASSUME NEW p \in Workers, Step(p)
  PROVE  SameRow(p) \/ MovedRow(p) \/ OtherRow(p)
BY DEF Step, Resuming, Provisioning, Checking, Deploying, Switching, Cleaning,
   SameRow, MovedRow, OtherRow

\* A step that only reads the row leaves the table as it is.
LEMMA SameRowKept ==
  ASSUME IndTypeOK, NEW p \in Workers, SameRow(p)
  PROVE  job' = job
<1>1. ASSUME Tx(p, JobOf(p)), ~At(p, "idle") PROVE job' = job
  BY <1>1, SameTx
<1>2. CASE \/ StageProvisioned(p) \/ RecordRunning(p) \/ StageCheckingIp(p)
           \/ ProbeRounds(p) \/ StageTempCleanup(p) \/ StageDeploying(p)
           \/ StageNodeVerified(p) \/ StageMasterUpdating(p) \/ StageMasterVerifying(p)
           \/ StageFinalCheck(p) \/ StageOldVpsCleanup(p)
  <2>1. Tx(p, JobOf(p)) /\ ~At(p, "idle")
    BY <1>2 DEF StageProvisioned, RecordRunning, StageCheckingIp, ProbeRounds,
       StageTempCleanup, StageDeploying, StageNodeVerified, StageMasterUpdating,
       StageMasterVerifying, StageFinalCheck, StageOldVpsCleanup, At
  <2> QED
    BY <1>1, <2>1
<1>3. CASE \/ Dispatch(p) \/ Defer(p) \/ Break(p) \/ Refused(p) \/ Release(p)
           \/ CreateServer(p) \/ ServerReady(p) \/ DeleteTemporary(p) \/ Deploy(p)
           \/ Reverify(p) \/ UpdateMaster(p) \/ VerifyMaster(p) \/ FinalProbe(p)
           \/ Rollback(p) \/ RollbackVerified(p) \/ DeleteOldVps(p)
  BY <1>3 DEF Dispatch, Defer, Break, Refused, Raises, Release, CreateServer, ServerReady,
     DeleteTemporary, Deploy, Reverify, UpdateMaster, VerifyMaster, FinalProbe, Rollback,
     RollbackVerified, DeleteOldVps, registry
<1> QED
  BY <1>2, <1>3 DEF SameRow

\* Moving a row to a checkpoint of a running job changes nothing else.
LEMMA MovedFields ==
  ASSUME NEW r \in JobRow, NEW t \in Running
  PROVE  /\ Moved(r, t) \in JobRow /\ Moved(r, t).cp = t /\ Moved(r, t).slot = r.slot
         /\ Moved(r, t).new = r.new /\ Moved(r, t).attempt = r.attempt
         /\ Moved(r, t).requested = r.requested
<1>1. t \in Checkpoint /\ t \notin Terminal
  BY DEF Running, Terminal, Checkpoint
<1> QED
  BY <1>1 DEF Moved, JobRow

\* The moves along an edge.
LEMMA MovedRowOnto ==
  ASSUME IndTypeOK, NEW p \in Workers, MovedRow(p)
  PROVE  /\ Goto(p, "loop") /\ ~At(p, "idle")
         /\ \E t \in Running : Onto(p, t)
         /\ \E r : Tx(p, r)
<1> DEFINE r == JobOf(p)
<1>1. ~At(p, "idle")
  BY DEF MovedRow, CandidateGone, BootGrace, PassIp, RejectIp, StageIpVerified, TestMaster,
     RecordMasterUpdate, StageMasterUpdated, RecordMasterVerified, StageMasterVerified,
     RecordFinal, StageFinalVerified, At
<1>2. /\ Of(p) \in Jobs /\ r \in JobRow /\ r = job[Of(p)] /\ Of(p) = worker[p].job
      /\ job \in [Jobs -> JobRow]
  BY <1>1, BusyRow, Typed DEF JobOf, Of
<1>3. ASSUME NEW t \in Running, <<worker[p].pc, t>> \in Target, NEW q, Tx(p, q),
             q.cp = t, q.slot = r.slot, q.new = r.new, q.attempt = r.attempt,
             q.requested = r.requested
      PROVE  Onto(p, t)
  BY <1>2, <1>3 DEF Onto, Tx
<1>4. ASSUME NEW t \in Running, <<worker[p].pc, t>> \in Target, Tx(p, Moved(r, t))
      PROVE  Onto(p, t)
  BY <1>2, <1>3, <1>4, MovedFields
<1>5. ASSUME NEW m \in JobRow
      PROVE  \A f \in {[m EXCEPT !.ipVerified = TRUE], [m EXCEPT !.masterUpdated = TRUE],
                       [m EXCEPT !.masterVerified = TRUE], [m EXCEPT !.finalVerified = TRUE]} :
               /\ f.cp = m.cp /\ f.slot = m.slot /\ f.new = m.new
               /\ f.attempt = m.attempt /\ f.requested = m.requested
  BY DEF JobRow
<1>6. CASE \/ CandidateGone(p) \/ BootGrace(p) \/ RejectIp(p) \/ StageIpVerified(p)
           \/ TestMaster(p) \/ StageMasterUpdated(p) \/ StageMasterVerified(p)
           \/ StageFinalVerified(p)
  <2>1. \E t \in Running : <<worker[p].pc, t>> \in Target /\ Tx(p, Moved(r, t))
    BY <1>6 DEF CandidateGone, BootGrace, RejectIp, StageIpVerified, TestMaster,
       StageMasterUpdated, StageMasterVerified, StageFinalVerified, At, Target, Running
  <2>2. Goto(p, "loop")
    BY <1>6 DEF CandidateGone, BootGrace, RejectIp, StageIpVerified, TestMaster,
       StageMasterUpdated, StageMasterVerified, StageFinalVerified
  <2> QED
    BY <1>1, <1>4, <2>1, <2>2
<1>7. CASE PassIp(p) \/ RecordMasterUpdate(p) \/ RecordMasterVerified(p) \/ RecordFinal(p)
  <2>1. PICK t \in Running :
          /\ <<worker[p].pc, t>> \in Target
          /\ \E f \in {[Moved(r, t) EXCEPT !.ipVerified = TRUE],
                       [Moved(r, t) EXCEPT !.masterUpdated = TRUE],
                       [Moved(r, t) EXCEPT !.masterVerified = TRUE],
                       [Moved(r, t) EXCEPT !.finalVerified = TRUE]} : Tx(p, f)
    BY <1>7 DEF PassIp, RecordMasterUpdate, RecordMasterVerified, RecordFinal, At, Target,
       Running
  <2>2. Goto(p, "loop")
    BY <1>7 DEF PassIp, RecordMasterUpdate, RecordMasterVerified, RecordFinal
  <2>3. Onto(p, t)
    <3> DEFINE m == Moved(r, t)
    <3>1. m \in JobRow /\ m.cp = t /\ m.slot = r.slot /\ m.new = r.new
          /\ m.attempt = r.attempt /\ m.requested = r.requested
      BY <1>2, MovedFields
    <3> HIDE DEF m
    <3>2. PICK f \in {[m EXCEPT !.ipVerified = TRUE], [m EXCEPT !.masterUpdated = TRUE],
                      [m EXCEPT !.masterVerified = TRUE], [m EXCEPT !.finalVerified = TRUE]} :
            Tx(p, f)
      BY <2>1 DEF m
    <3>3. /\ f.cp = m.cp /\ f.slot = m.slot /\ f.new = m.new
          /\ f.attempt = m.attempt /\ f.requested = m.requested
      BY <1>5, <3>1
    <3> QED
      BY <1>3, <2>1, <3>1, <3>2, <3>3
  <2> QED
    BY <1>1, <2>1, <2>2, <2>3
<1> QED
  BY <1>6, <1>7 DEF MovedRow

\* A step of p is p's alone.
LEMMA StepAlone ==
  ASSUME IndTypeOK, NEW p \in Workers, Step(p)
  PROVE  Alone(p) /\ ~At(p, "idle")
<1>1. worker \in [Workers -> Execution] /\ job \in [Jobs -> JobRow]
  BY Typed
<1>2. ASSUME NEW l, NEW s, Goto(p, l) \/ GotoWith(p, l, s)
      PROVE  /\ \A q \in Workers \ {p} : worker'[q] = worker[q]
             /\ worker'[p].job = worker[p].job
  BY <1>2, GotoSteps DEF StepTo
<1>3. ASSUME NEW r, job' = [job EXCEPT ![worker[p].job] = r]
      PROVE  \A k \in Jobs \ {Of(p)} : job'[k] = job[k]
  BY <1>1, <1>3 DEF Of
<1>4. CASE SameRow(p)
  <2>1. \A k \in Jobs \ {Of(p)} : job'[k] = job[k]
    BY <1>4, SameRowKept
  <2>2. CASE Dispatch(p) \/ Release(p) \/ StageDeploying(p)
    <3>1. ~At(p, "idle")
      BY <2>2 DEF Dispatch, Release, StageDeploying, At
    <3>2. CASE Dispatch(p)
      <4>1. /\ \A q \in Workers \ {p} : worker'[q] = worker[q]
            /\ worker'[p].job = worker[p].job
        BY <1>1, <3>2 DEF Dispatch, Asleep
      <4> QED
        BY <2>1, <3>1, <4>1 DEF Alone
    <3>3. CASE Release(p)
      <4>1. /\ \A q \in Workers \ {p} : worker'[q] = worker[q]
            /\ worker'[p].pc = "idle"
        BY <1>1, <3>3 DEF Release, Asleep
      <4> QED
        BY <2>1, <3>1, <4>1 DEF Alone
    <3>4. CASE StageDeploying(p)
      <4>1. PICK l, s, c, n : worker' = [worker EXCEPT ![p].pc = l, ![p].srv = s,
                                                      ![p].cp = c, ![p].nst = n]
        BY <3>4 DEF StageDeploying
      <4>2. /\ \A q \in Workers \ {p} : worker'[q] = worker[q]
            /\ worker'[p].job = worker[p].job
        BY <1>1, <4>1 DEF Execution
      <4> QED
        BY <2>1, <3>1, <4>2 DEF Alone
    <3> QED
      BY <2>2, <3>2, <3>3, <3>4, <3>1
  <2>3. CASE ~(Dispatch(p) \/ Release(p) \/ StageDeploying(p))
    <3>1. ~At(p, "idle") /\ \E l, s : Goto(p, l) \/ GotoWith(p, l, s)
      BY SMTT(60), <1>4, <2>3 DEF SameRow, Defer, Break, Refused, Raises, CreateServer,
         StageProvisioned, ServerReady, RecordRunning, StageCheckingIp, ProbeRounds,
         StageTempCleanup, DeleteTemporary, Deploy, Reverify, StageNodeVerified,
         StageMasterUpdating, UpdateMaster, Interrupted, StageMasterVerifying, VerifyMaster,
         StageFinalCheck, FinalProbe, Rollback, RollbackVerified, StageOldVpsCleanup,
         DeleteOldVps, At, Deferrable, Fallible, Transactions, Renewing, NeedsNew,
         NeedsSnap, Target
    <3> QED
      BY <1>2, <2>1, <3>1 DEF Alone
  <2> QED
    BY <2>2, <2>3
<1>5. CASE MovedRow(p)
  <2>1. Goto(p, "loop") /\ ~At(p, "idle") /\ \E r : Tx(p, r)
    BY <1>5, MovedRowOnto
  <2> QED
    BY <1>2, <1>3, <2>1 DEF Alone, Tx
<1>6. CASE OtherRow(p)
  <2>1. ~At(p, "idle")
    BY <1>6 DEF OtherRow, StageCreated, StageProvisioning, FindCandidate, RecordServer,
       RecordTempCleanup, RecordDeployment, SnapshotMaster, Finish, FailJob, At
  <2>2. \A k \in Jobs \ {Of(p)} : job'[k] = job[k]
    BY <1>1, <1>6 DEF OtherRow, StageCreated, StageProvisioning, FindCandidate, RecordServer,
       RecordTempCleanup, RecordDeployment, SnapshotMaster, Finish, FailJob, Tx, Of
  <2>3. CASE StageProvisioning(p)
    <3>1. ASSUME NEW n, NEW q, NEW m,
                 worker' = [worker EXCEPT ![p].pc = "find", ![p].name = n,
                                          ![p].req = q, ![p].room = m]
          PROVE  /\ \A o \in Workers \ {p} : worker'[o] = worker[o]
                 /\ worker'[p].job = worker[p].job
      BY <1>1, <3>1 DEF Execution
    <3>2. \/ Goto(p, "loop") \/ Goto(p, "fail")
          \/ \E n, q, m : worker' = [worker EXCEPT ![p].pc = "find", ![p].name = n,
                                                  ![p].req = q, ![p].room = m]
      BY <2>3 DEF StageProvisioning
    <3>3. /\ \A o \in Workers \ {p} : worker'[o] = worker[o]
          /\ worker'[p].job = worker[p].job
      BY <1>2, <3>1, <3>2
    <3> QED
      BY <2>1, <2>2, <3>3 DEF Alone
  <2>4. CASE ~StageProvisioning(p)
    <3>1. \E l, s : Goto(p, l) \/ GotoWith(p, l, s)
      BY <1>6, <2>4 DEF OtherRow, StageCreated, FindCandidate, RecordServer,
         RecordTempCleanup, RecordDeployment, SnapshotMaster, Finish, FailJob
    <3> QED
      BY <1>2, <2>1, <2>2, <3>1 DEF Alone
  <2> QED
    BY <2>3, <2>4
<1> QED
  BY <1>4, <1>5, <1>6, RowCases

------------------------------------------------------------------------------
(* No stranded node.                                                        *)

\* No job is cancelled, and one that is not over owns the node; so a node in a
\* workflow state has an owner.
Settled ==
  /\ \A j \in Jobs : job[j].cp # "cancelled"
  /\ \A j \in Jobs : job[j].cp \in Running => job[j].slot
  /\ NoStrandedNode

\* A step that takes its job on keeps its slot, and enters a workflow state
\* for that job only.
Onward(p) ==
  /\ \A k \in Jobs : /\ job'[k].slot = job[k].slot
                     /\ job'[k].cp = job[k].cp \/ {job[k].cp, job'[k].cp} \subseteq Running
  /\ node'.state \in InWorkflow => node.state \in InWorkflow \/ JobOf(p).cp \in Running

\* Such a step strands no node.
LEMMA OnwardSettles ==
  ASSUME IndTypeOK, Settled, NEW p \in Workers, ~At(p, "idle"), Onward(p)
  PROVE  Settled'
<1>1. Of(p) \in Jobs /\ JobOf(p) = job[Of(p)]
  BY Typed DEF At, Of, JobOf
<1>2. \A j \in Jobs : job'[j].cp # "cancelled" /\ (job'[j].cp \in Running => job'[j].slot)
  BY DEF Settled, Onward, Running
<1>3. NoStrandedNode'
  BY <1>1 DEF Settled, Onward, NoStrandedNode
<1> QED
  BY <1>2, <1>3 DEF Settled

\* The job of an execution that is inside a stage is not over.
LEMMA StageRunning ==
  ASSUME SwapInv, Settled, NEW p \in Workers, worker[p].pc \notin {"idle", "loop", "release"}
  PROVE  JobOf(p).cp \in Running /\ Of(p) \in Jobs /\ JobOf(p) = job[Of(p)]
<1>1. Placed(p) /\ Of(p) \in Jobs
  BY Typed DEF SwapInv, Executions, Of
<1> QED
  BY <1>1 DEF Placed, Settled, JobOf, Of

\* The steps that read the row, or move it along an edge, take the job on.
LEMMA RowsOnward ==
  ASSUME SwapInv, Settled, NEW p \in Workers, SameRow(p) \/ MovedRow(p), Step(p)
  PROVE  Onward(p)
<1>1. IndTypeOK /\ node \in [state : NodeState, host : Servers, name : 0..MaxFaults]
  BY Typed DEF SwapInv
<1>2. node'.state \in InWorkflow => node.state \in InWorkflow
  BY <1>1 DEF SameRow, Dispatch, Defer, Break, Refused, Raises, Release,
     CreateServer, StageProvisioned, ServerReady, RecordRunning, StageCheckingIp,
     ProbeRounds, StageTempCleanup, DeleteTemporary, StageDeploying, Deploy, Reverify,
     StageNodeVerified, StageMasterUpdating, UpdateMaster, StageMasterVerifying,
     VerifyMaster, StageFinalCheck, FinalProbe, Rollback, RollbackVerified,
     StageOldVpsCleanup, DeleteOldVps, registry,
     MovedRow, CandidateGone, BootGrace, PassIp, RejectIp, StageIpVerified, TestMaster,
     RecordMasterUpdate, StageMasterUpdated, RecordMasterVerified, StageMasterVerified,
     RecordFinal, StageFinalVerified, InWorkflow
<1>3. CASE SameRow(p)
  <2>1. job' = job
    BY <1>1, <1>3, SameRowKept
  <2> QED
    BY <1>2, <2>1 DEF Onward
<1>4. CASE MovedRow(p)
  <2>1. PICK t \in Running : Onto(p, t)
    BY <1>1, <1>4, MovedRowOnto
  <2>2. Alone(p)
    BY <1>1, StepAlone
  <2>3. JobOf(p).cp \in Running /\ Of(p) \in Jobs /\ JobOf(p) = job[Of(p)]
    <3>1. worker[p].pc \notin {"idle", "loop", "release"}
      BY <2>1 DEF Onto, Target
    <3> QED
      BY <3>1, StageRunning
  <2> QED
    BY <1>2, <2>1, <2>2, <2>3 DEF Onward, Onto, Alone
<1> QED
  BY <1>3, <1>4

\* So does a new row that keeps the slot and belongs to a running job.
LEMMA NewRowOnward ==
  ASSUME SwapInv, Settled, NEW p \in Workers, worker[p].pc \notin {"idle", "loop", "release"},
         NEW r, job' = [job EXCEPT ![worker[p].job] = r],
         r.slot = JobOf(p).slot, r.cp \in Running
  PROVE  Onward(p)
<1>1. JobOf(p).cp \in Running /\ Of(p) \in Jobs /\ JobOf(p) = job[Of(p)] /\ IndTypeOK
  BY StageRunning DEF SwapInv
<1>2. /\ job'[Of(p)] = r
      /\ \A k \in Jobs \ {Of(p)} : job'[k] = job[k]
  BY <1>1, Typed DEF Of
<1> QED
  BY <1>1, <1>2 DEF Onward

\* The other steps take it on, or end it.
LEMMA OthersOnward ==
  ASSUME SwapInv, Settled, NEW p \in Workers, OtherRow(p)
  PROVE  Onward(p) \/ Finish(p) \/ FailJob(p)
<1> DEFINE r == JobOf(p)
<1>1. ASSUME ~Finish(p), ~FailJob(p)
      PROVE  Onward(p)
  <2>1. worker[p].pc \notin {"idle", "loop", "release"}
    BY <1>1 DEF OtherRow, StageCreated, StageProvisioning, FindCandidate, RecordServer,
       RecordTempCleanup, RecordDeployment, SnapshotMaster, At
  <2>2. /\ r.cp \in Running /\ Of(p) \in Jobs /\ r = job[Of(p)] /\ r \in JobRow
        /\ IndTypeOK /\ Of(p) = worker[p].job /\ job \in [Jobs -> JobRow]
    BY <2>1, StageRunning, BusyRow, Typed DEF SwapInv, At, Of
  <2>3. ASSUME UNCHANGED job PROVE Onward(p)
    BY <2>2, <2>3 DEF Onward
  <2>4. ASSUME NEW q, job' = [job EXCEPT ![worker[p].job] = q], q.slot = r.slot,
               q.cp \in Running
        PROVE  Onward(p)
    BY <2>1, <2>4, NewRowOnward
  <2>5. ASSUME NEW t \in Running
        PROVE  Moved(r, t) \in JobRow /\ Moved(r, t).cp = t /\ Moved(r, t).slot = r.slot
    BY <2>2, MovedFields
  <2>6. CASE StageCreated(p)
    <3> DEFINE m == Moved(r, "provisioning")
    <3>1. m \in JobRow /\ m.cp = "provisioning" /\ m.slot = r.slot
      BY <2>5 DEF Running
    <3>2. job' = [job EXCEPT ![worker[p].job] =
                    [m EXCEPT !.attempt = IF @ < 1 THEN 1 ELSE @]]
      BY <2>6 DEF StageCreated, Tx
    <3> HIDE DEF m
    <3>3. PICK a : job' = [job EXCEPT ![worker[p].job] = [m EXCEPT !.attempt = a]]
      BY <3>2
    <3>4. [m EXCEPT !.attempt = a].slot = m.slot /\ [m EXCEPT !.attempt = a].cp = m.cp
      BY <3>1 DEF JobRow
    <3> QED
      BY <2>4, <3>1, <3>3, <3>4 DEF Running
  <2>7. CASE StageProvisioning(p)
    BY <2>3, <2>4, <2>5, <2>7 DEF StageProvisioning, Running
  <2>8. CASE FindCandidate(p)
    <3>1. UNCHANGED job \/ job' = [job EXCEPT ![worker[p].job].requested = TRUE]
      BY <2>8 DEF FindCandidate
    <3>2. ASSUME job' = [job EXCEPT ![worker[p].job].requested = TRUE] PROVE Onward(p)
      <4>1. job' = [job EXCEPT ![worker[p].job] = [r EXCEPT !.requested = TRUE]]
        BY <2>2, <3>2
      <4>2. [r EXCEPT !.requested = TRUE].slot = r.slot /\ [r EXCEPT !.requested = TRUE].cp = r.cp
        BY <2>2 DEF JobRow
      <4> QED
        BY <2>2, <2>4, <4>1, <4>2
    <3> QED
      BY <2>3, <3>1, <3>2
  <2>9. CASE RecordServer(p)
    <3> DEFINE m == Moved(r, "provisioned")
    <3>1. m \in JobRow /\ m.cp = "provisioned" /\ m.slot = r.slot
      BY <2>5 DEF Running
    <3>2. job' = [job EXCEPT ![worker[p].job] = [m EXCEPT !.new = worker[p].srv]]
      BY <2>9 DEF RecordServer, Tx
    <3> HIDE DEF m
    <3>3. /\ [m EXCEPT !.new = worker[p].srv].slot = m.slot
          /\ [m EXCEPT !.new = worker[p].srv].cp = m.cp
      BY <3>1 DEF JobRow
    <3> QED
      BY <2>4, <3>1, <3>2, <3>3 DEF Running
  <2>10. CASE RecordTempCleanup(p)
    <3> DEFINE q == [r EXCEPT !.new = None, !.requested = FALSE]
               m == Moved(q, "provisioning")
    <3>1. q \in JobRow /\ q.slot = r.slot /\ q.cp = r.cp
      BY <2>2 DEF JobRow, MaybeServer
    <3>2. \/ job' = [job EXCEPT ![worker[p].job] = q]
          \/ job' = [job EXCEPT ![worker[p].job] = [m EXCEPT !.attempt = @ + 1]]
      BY <2>10 DEF RecordTempCleanup, Tx
    <3> HIDE DEF q
    <3>3. m \in JobRow /\ m.cp = "provisioning" /\ m.slot = r.slot
      BY <3>1, MovedFields DEF Running
    <3> HIDE DEF m
    <3>4. [m EXCEPT !.attempt = @ + 1].slot = m.slot /\ [m EXCEPT !.attempt = @ + 1].cp = m.cp
      BY <3>3 DEF JobRow
    <3> QED
      BY <2>2, <2>4, <3>1, <3>2, <3>3, <3>4 DEF Running
  <2>11. CASE RecordDeployment(p)
    <3>1. job' = [job EXCEPT ![worker[p].job].cp = "node_verified",
                             ![worker[p].job].deployVerified = TRUE]
      BY <2>11 DEF RecordDeployment
    <3>2. /\ job'[Of(p)].cp = "node_verified" /\ job'[Of(p)].slot = r.slot
          /\ \A k \in Jobs \ {Of(p)} : job'[k] = job[k]
      BY <2>2, <3>1 DEF JobRow
    <3> QED
      BY <2>2, <3>2 DEF Onward, Running
  <2>12. CASE SnapshotMaster(p)
    <3>1. PICK v : job' = [job EXCEPT ![worker[p].job].snap = v]
      BY <2>12 DEF SnapshotMaster
    <3>2. /\ job'[Of(p)].cp = r.cp /\ job'[Of(p)].slot = r.slot
          /\ \A k \in Jobs \ {Of(p)} : job'[k] = job[k]
      BY <2>2, <3>1 DEF JobRow
    <3> QED
      BY <2>2, <3>2 DEF Onward
  <2> QED
    BY <1>1, <2>6, <2>7, <2>8, <2>9, <2>10, <2>11, <2>12 DEF OtherRow
<1> QED
  BY <1>1

\* A job that ends leaves no node in a workflow state behind.
LEMMA EndSettles ==
  ASSUME SwapInv, Settled, NEW p \in Workers, Finish(p) \/ FailJob(p)
  PROVE  Settled'
<1> DEFINE r == JobOf(p)
<1>1. /\ r.cp \in Running /\ Of(p) \in Jobs /\ r = job[Of(p)] /\ r \in JobRow
      /\ IndTypeOK /\ Of(p) = worker[p].job /\ job \in [Jobs -> JobRow]
      /\ node \in [state : NodeState, host : Servers, name : 0..MaxFaults]
  <2>1. worker[p].pc \notin {"idle", "loop", "release"}
    BY DEF Finish, FailJob, At
  <2> QED
    BY <2>1, StageRunning, BusyRow, Typed DEF SwapInv, At, Of
<1>2. ASSUME NEW t \in {"completed", "failed"}, job' = [job EXCEPT ![Of(p)] = Moved(r, t)],
             node'.state \notin InWorkflow
      PROVE  Settled'
  <2>1. job'[Of(p)].cp = t /\ \A k \in Jobs \ {Of(p)} : job'[k] = job[k]
    <3>1. Moved(r, t).cp = t
      BY <1>1 DEF Moved, JobRow
    <3> QED
      BY <1>1, <1>2, <3>1
  <2>2. NoStrandedNode'
    BY <1>2 DEF NoStrandedNode
  <2> QED
    BY <2>1, <2>2 DEF Settled, Running
<1>3. CASE Finish(p)
  <2>1. job' = [job EXCEPT ![Of(p)] = Moved(r, "completed")]
    BY <1>1, <1>3 DEF Finish, Tx
  <2>2. node'.state = "HEALTHY"
    BY <1>1, <1>3 DEF Finish
  <2> QED
    BY <1>2, <2>1, <2>2 DEF InWorkflow
<1>4. CASE FailJob(p)
  <2>1. r.cp \notin Terminal
    BY <1>1 DEF Running, Terminal
  <2>2. job' = [job EXCEPT ![Of(p)] = Moved(r, "failed")]
    BY <1>1, <1>4, <2>1 DEF FailJob
  <2>3. node'.state = Restored(node.state, r.forced, r.masterUpdated, r.orig)
    BY <1>1, <1>4, <2>1 DEF FailJob
  <2>4. node'.state \notin InWorkflow
    BY <1>1, <2>3 DEF Restored, JobRow, InWorkflow, Monitored
  <2> QED
    BY <1>2, <2>2, <2>4
<1> QED
  BY <1>3, <1>4

\* Every step but a cancellation strands no node.
LEMMA NextSettles ==
  ASSUME SwapInv, Settled, [Next]_vars, "lapse" \notin Faults, "cancel" \notin Faults
  PROVE  Settled'
<1>1. /\ IndTypeOK /\ job \in [Jobs -> JobRow]
      /\ node \in [state : NodeState, host : Servers, name : 0..MaxFaults]
  BY Typed DEF SwapInv
<1>2. ASSUME UNCHANGED job, node'.state \in InWorkflow => node.state \in InWorkflow
      PROVE  Settled'
  BY <1>2 DEF Settled, NoStrandedNode
<1>3. ASSUME NEW p \in Workers, Step(p) PROVE Settled'
  <2>1. Onward(p) \/ Finish(p) \/ FailJob(p)
    BY <1>3, RowCases, RowsOnward, OthersOnward
  <2> QED
    BY <1>1, <1>3, <2>1, StepAlone, OnwardSettles, EndSettles
<1>4. ASSUME NEW p \in Workers, NEW j \in Jobs, Acquire(p, j) PROVE Settled'
  BY <1>2, <1>4 DEF Acquire, registry
<1>5. ASSUME NEW j \in Jobs, NEW s \in Servers, NEW f \in BOOLEAN, Trigger(j, s, f)
      PROVE  Settled'
  <2>1. PICK o : job' = [job EXCEPT ![j] =
                   [NoJob EXCEPT !.cp = "created", !.slot = TRUE, !.forced = f,
                                 !.orig = o, !.old = s]]
    BY <1>5 DEF Trigger
  <2>2. /\ job'[j].cp = "created" /\ job'[j].slot
        /\ \A k \in Jobs \ {j} : job'[k] = job[k]
    BY <1>1, <2>1 DEF NoJob
  <2> QED
    BY <2>2 DEF Settled, NoStrandedNode, Running
<1>6. ASSUME NEW j \in Jobs, Cancel(j) PROVE FALSE
  BY <1>6 DEF Cancel, Misfortune
<1>7. CASE CheckDisable \/ CommitDisable \/ Enable \/ Rename
  BY <1>1, <1>2, <1>7 DEF CheckDisable, CommitDisable, Enable, Rename, registry, InWorkflow
<1>8. CASE Environment
  <2>1. ASSUME NEW p \in Workers, Crash(p) \/ Lapse(p) PROVE Settled'
    BY <1>2, <2>1 DEF Crash, Lapse, registry
  <2>2. ASSUME NEW j \in Jobs, Expire(j) PROVE Settled'
    BY <1>2, <2>2 DEF Expire, registry
  <2>3. ASSUME NEW n \in inflight, Settle(n) PROVE Settled'
    BY <1>2, <2>3 DEF Settle, registry
  <2>4. ASSUME NEW s \in Servers, LoseServer(s) PROVE Settled'
    BY <1>2, <2>4 DEF LoseServer, registry
  <2>5. ASSUME NEW t \in Monitored, MonitorNode(t) PROVE Settled'
    BY <1>1, <1>2, <2>5 DEF MonitorNode, Monitored, InWorkflow
  <2> QED
    BY <1>8, <2>1, <2>2, <2>3, <2>4, <2>5 DEF Environment
<1>9. CASE UNCHANGED vars
  BY <1>2, <1>9 DEF vars
<1> QED
  BY <1>3, <1>4, <1>5, <1>6, <1>7, <1>8, <1>9 DEF Next, Operator

\* The node is in a workflow state only while a job owns it: no failure, crash,
\* deferral, rename or stale disabling leaves it where neither monitoring nor a
\* new trigger can take it out (NoStrandedNode).  A cancellation that meets the
\* commit of a deployment can, so the theorem is about the other faults.
THEOREM NodeNeverStranded ==
  ASSUME "lapse" \notin Faults, "cancel" \notin Faults
  PROVE  Spec => []NoStrandedNode
<1>1. Init => Settled
  BY DEF Init, Settled, NoStrandedNode, NoJob, Running, InWorkflow
<1>2. SwapInv /\ Settled /\ [Next]_vars => Settled'
  BY NextSettles
<1>3. Settled => NoStrandedNode
  BY DEF Settled
<1> QED
  BY <1>1, <1>2, <1>3, SwapInvariant, PTL DEF Spec

------------------------------------------------------------------------------
(* One temporary server per job.                                            *)

\* s is the only server of job j that runs, if any does; no request is open.
Only(j, s) == \A t \in Servers : cloud[t] = "live" /\ Bought(t, j) => t = s
NoPending(j) == \A n \in inflight : n[2] # j

\* A job has at most one running server, under the name of its attempt, and at
\* most one open create request, which will find that name free.  A job leaves
\* an attempt only when its server is gone.
Tidy(j) ==
  LET r == job[j] IN
  /\ \A s \in Servers : cloud[s] = "live" /\ Bought(s, j) => label[s] = NameOf(j) /\ Only(j, s)
  /\ r.cp \in {"none", "created"} => \A s \in Servers : ~Bought(s, j)
  /\ r.cp \in {"none", "created", "provisioning"} => r.new = None
  /\ r.cp \in {"provisioned", "checking_ip"} => r.new # None
  /\ r.cp = "temp_cleanup" /\ r.new = None => r.attempt = MaxAttempts
  /\ r.new # None => Only(j, r.new)
  /\ r.new # None /\ vps[r.new] = "deleted" => cloud[r.new] # "live"
  /\ \A n \in inflight : n[2] = j =>
       /\ n = NameOf(j) /\ Candidates(n) = {} /\ r.requested /\ r.new = None
       /\ r.cp \in {"provisioning", "failed", "cancelled"}

\* What an execution relies on: the name it looks up and creates under is still
\* its job's, that name is free when it creates, nothing of the job runs when
\* it records a cleanup, and beyond the lookup no request is open.
Sure(p) ==
  LET l == worker[p].pc  j == Of(p)  r == JobOf(p) IN
  /\ l \in {"provisioning", "find", "create", "record"} => r.new = None
  /\ l \in {"find", "create"} => worker[p].name = NameOf(j)
  /\ l = "find" => worker[p].req = r.requested
  /\ l = "create" => Candidates(NameOf(j)) = {} /\ r.requested
  /\ l = "record" => Only(j, worker[p].srv)
  /\ l = "ready" => worker[p].srv = r.new
  /\ l \in {"gone", "temp_record"} /\ r.new # None => cloud[r.new] # "live"
  /\ l \notin {"idle", "loop", "release", "fail", "provisioning", "find"} => NoPending(j)

AllTidy == \A j \in Jobs : Tidy(j)
AllSure == \A p \in Workers : Sure(p)

\* A step about job j: whatever it creates or asks for is j's, the node keeps
\* its name, and a row marked deleted is j's or that of a server that is gone.
Aside(j) ==
  /\ \A k \in Jobs \ {j} : job'[k] = job[k]
  /\ node'.name = node.name
  /\ \A s \in Servers : label[s] # None => label'[s] = label[s]
  /\ \A s \in Servers : label'[s] # label[s] => label'[s] # None /\ label'[s][2] = j
  /\ \A s \in Servers : cloud'[s] = "live" /\ cloud[s] # "live" =>
       cloud[s] = "absent" /\ label'[s] # None /\ label'[s][2] = j
  /\ \A s \in Servers : vps'[s] = "deleted" /\ vps[s] # "deleted" =>
       Bought(s, j) \/ cloud'[s] # "live"
  /\ \A n \in inflight' : n \in inflight \/ n[2] = j

\* The name of a job's attempt is a name, and says whose it is.
LEMMA NameTyped ==
  ASSUME IndTypeOK, NEW j \in Jobs
  PROVE  NameOf(j) \in Names /\ NameOf(j)[2] = j
<1>1. node.name \in 0..MaxFaults /\ job[j].attempt \in 0..MaxAttempts
  BY Typed
<1> QED
  BY <1>1 DEF NameOf, Names

\* What runs for another job was running for it before.
LEMMA AsideServers ==
  ASSUME NEW j \in Jobs, Aside(j), NEW k \in Jobs \ {j}, NEW s \in Servers
  PROVE  /\ Bought(s, k)' => Bought(s, k) /\ label'[s] = label[s]
         /\ Bought(s, k)' /\ cloud'[s] = "live" => cloud[s] = "live"
BY DEF Aside, Bought

\* A step about one job leaves the others tidy ...
LEMMA AsideTidy ==
  ASSUME SwapInv, NEW j \in Jobs, Aside(j), NEW k \in Jobs, k # j, Tidy(k)
  PROVE  Tidy(k)'
<1>0. PICK r : r = job[k]
  OBVIOUS
<1>1. job'[k] = r /\ NameOf(k)' = NameOf(k) /\ r.new \in Servers \cup {None}
      /\ None \notin Servers /\ inflight \subseteq Names /\ RowOK(k, r)
  BY <1>0, Typed, NoneNoServer
  DEF Aside, NameOf, SwapInv, IndTypeOK, TypeOK, OutsideTyped, Rows
<1>2. \A s \in Servers : /\ Bought(s, k)' => Bought(s, k) /\ label'[s] = label[s]
                         /\ Bought(s, k)' /\ cloud'[s] = "live" => cloud[s] = "live"
  BY AsideServers
<1>3. \A s \in Servers : Only(k, s) => Only(k, s)'
  BY <1>2 DEF Only
<1>4. \A s \in Servers : cloud'[s] = "live" /\ Bought(s, k)' =>
        label'[s] = NameOf(k) /\ Only(k, s)'
  BY <1>0, <1>2, <1>3 DEF Tidy
<1>5. r.new # None /\ vps'[r.new] = "deleted" => cloud'[r.new] # "live"
  <2> SUFFICES ASSUME r.new # None, vps'[r.new] = "deleted", cloud'[r.new] = "live"
               PROVE  FALSE
    OBVIOUS
  <2>1. r.new \in Servers /\ Bought(r.new, k)
    BY <1>1 DEF RowOK
  <2>2. cloud[r.new] = "live"
    <3>1. Bought(r.new, k)'
      BY <2>1 DEF Aside, Bought
    <3> QED
      BY <1>2, <2>1, <3>1
  <2>3. vps[r.new] = "deleted"
    BY <2>1 DEF Aside, Bought
  <2> QED
    BY <1>0, <2>2, <2>3 DEF Tidy
<1>6. ASSUME NEW n \in inflight', n[2] = k
      PROVE  /\ n = NameOf(k) /\ Candidates(n)' = {} /\ r.requested /\ r.new = None
             /\ r.cp \in {"provisioning", "failed", "cancelled"}
  <2>1. n \in inflight /\ n \in Names
    BY <1>1, <1>6 DEF Aside
  <2>2. /\ n = NameOf(k) /\ Candidates(n) = {} /\ r.requested /\ r.new = None
        /\ r.cp \in {"provisioning", "failed", "cancelled"}
    BY <1>0, <1>6, <2>1 DEF Tidy
  <2>3. ASSUME NEW s \in Servers, cloud'[s] = "live", label'[s] = n PROVE FALSE
    <3>1. Bought(s, k)'
      BY <1>6, <2>1, <2>3, NamesOwned DEF Bought
    <3>2. s \in Candidates(n)
      BY <1>2, <2>3, <3>1 DEF Candidates
    <3> QED
      BY <2>2, <3>2
  <2> QED
    BY <2>2, <2>3 DEF Candidates
<1>7. r.cp \in {"none", "created"} => \A s \in Servers : ~Bought(s, k)'
  BY <1>0, <1>2 DEF Tidy
<1>8. r.new # None => Only(k, r.new)'
  BY <1>0, <1>1, <1>3 DEF Tidy
<1> QED
  BY <1>0, <1>1, <1>4, <1>5, <1>6, <1>7, <1>8 DEF Tidy

\* ... and those who execute them sure.
LEMMA AsideSure ==
  ASSUME SwapInv, NEW j \in Jobs, Aside(j), NEW q \in Workers, worker'[q] = worker[q],
         ~At(q, "idle") => Of(q) # j, Sure(q)
  PROVE  Sure(q)'
<1>1. CASE At(q, "idle")
  BY <1>1 DEF Sure, At
<1>2. CASE ~At(q, "idle")
  <2> DEFINE l == worker[q].pc
  <2>1. PICK k, r : k \in Jobs \ {j} /\ k = Of(q) /\ r = JobOf(q) /\ r = job[k]
    BY <1>2, Typed DEF SwapInv, Of, JobOf, At
  <2>2. /\ job'[k] = r /\ NameOf(k)' = NameOf(k) /\ r.new \in Servers \cup {None}
        /\ None \notin Servers /\ inflight \subseteq Names /\ RowOK(k, r)
        /\ Of(q)' = k /\ JobOf(q)' = r /\ Known(q)
    BY <1>2, <2>1, Typed, NoneNoServer
    DEF Aside, NameOf, SwapInv, IndTypeOK, TypeOK, OutsideTyped, Rows, Of, JobOf, Executions
  <2>3. \A s \in Servers : /\ Bought(s, k)' => Bought(s, k) /\ label'[s] = label[s]
                           /\ Bought(s, k)' /\ cloud'[s] = "live" => cloud[s] = "live"
    BY <2>1, AsideServers
  <2>4. l = "create" => Candidates(NameOf(k))' = {}
    <3> SUFFICES ASSUME l = "create", NEW s \in Servers, cloud'[s] = "live",
                        label'[s] = NameOf(k)
                 PROVE  FALSE
      BY <2>2 DEF Candidates
    <3>1. Bought(s, k)'
      <4>1. NameOf(k)[2] = k /\ NameOf(k) \in Names
        BY <2>1, Typed, NameTyped DEF SwapInv
      <4> QED
        BY <4>1, NamesOwned DEF Bought
    <3>2. s \in Candidates(NameOf(k))
      BY <2>3, <3>1 DEF Candidates
    <3> QED
      BY <2>1, <3>2 DEF Sure
  <2>5. l = "record" => Only(k, worker[q].srv)'
    BY <2>1, <2>2, <2>3 DEF Sure, Only
  <2>6. l \in {"gone", "temp_record"} /\ r.new # None => cloud'[r.new] # "live"
    <3>1. l \in {"gone", "temp_record"} /\ r.new # None =>
            r.new \in Servers /\ Bought(r.new, k)' /\ cloud[r.new] # "live"
      BY <2>1, <2>2 DEF Sure, RowOK, Aside, Bought
    <3> QED
      BY <2>3, <3>1
  <2>7. NoPending(k) => NoPending(k)'
    BY <2>1 DEF NoPending, Aside
  <2> QED
    BY <2>1, <2>2, <2>4, <2>5, <2>6, <2>7 DEF Sure
<1> QED
  BY <1>1, <1>2

\* Nothing outside the job table changes that a tidy job depends on.
Steady == UNCHANGED <<cloud, label, inflight, vps>> /\ node'.name = node.name

\* The steps that do change it.
Unsteady(p) ==
  \/ CreateServer(p) \/ RecordServer(p) \/ CandidateGone(p) \/ DeleteTemporary(p)
  \/ RecordTempCleanup(p) \/ DeleteOldVps(p) \/ Finish(p)

\* Those are all of them.
LEMMA SteadyOrNot ==
  ASSUME IndTypeOK, NEW p \in Workers, Step(p)
  PROVE  Steady \/ Unsteady(p)
<1>1. node \in [state : NodeState, host : Servers, name : 0..MaxFaults]
  BY Typed
<1>2. CASE Resuming(p)
  BY <1>1, <1>2 DEF Resuming, Dispatch, Defer, Break, Refused, Raises, FailJob, Release,
     Steady, registry, outside
<1>3. CASE Provisioning(p)
  BY <1>3 DEF Provisioning, StageCreated, StageProvisioning, FindCandidate,
     StageProvisioned, ServerReady, RecordRunning, BootGrace, Unsteady, Steady,
     registry, outside
<1>4. CASE Checking(p)
  BY <1>4 DEF Checking, StageCheckingIp, ProbeRounds, PassIp, RejectIp, StageTempCleanup,
     Unsteady, Steady, registry, outside
<1>5. CASE Deploying(p)
  BY <1>1, <1>5 DEF Deploying, StageIpVerified, StageDeploying, Deploy, Reverify,
     RecordDeployment, Steady, registry, outside
<1>6. CASE Switching(p)
  BY <1>6 DEF Switching, StageNodeVerified, SnapshotMaster, TestMaster,
     StageMasterUpdating, UpdateMaster, RecordMasterUpdate, StageMasterUpdated,
     StageMasterVerifying, VerifyMaster, RecordMasterVerified, StageMasterVerified,
     StageFinalCheck, FinalProbe, RecordFinal, Rollback, RollbackVerified, Steady,
     registry, outside
<1>7. CASE Cleaning(p)
  BY <1>7 DEF Cleaning, StageFinalVerified, StageOldVpsCleanup, Unsteady, Steady,
     registry, outside
<1> QED
  BY <1>2, <1>3, <1>4, <1>5, <1>6, <1>7 DEF Step

\* A busy execution and its job.
LEMMA Busy ==
  ASSUME SwapInv, AllTidy, AllSure, NEW p \in Workers, ~At(p, "idle")
  PROVE  /\ Of(p) \in Jobs /\ Of(p) = worker[p].job /\ JobOf(p) = job[Of(p)]
         /\ JobOf(p) \in JobRow /\ JobOf(p).new \in Servers \cup {None} /\ None \notin Servers
         /\ RowOK(Of(p), JobOf(p)) /\ Placed(p) /\ Known(p) /\ Tidy(Of(p)) /\ Sure(p)
         /\ IndTypeOK
BY BusyRow, Typed, NoneNoServer
DEF SwapInv, Rows, Executions, AllTidy, AllSure, Of, JobOf, At

\* Every step of an execution is about its job.
LEMMA StepAside ==
  ASSUME SwapInv, AllTidy, AllSure, NEW p \in Workers, Step(p), NEW j \in Jobs, j = Of(p)
  PROVE  Aside(j)
<1>1. /\ ~At(p, "idle") /\ IndTypeOK
      /\ \A k \in Jobs \ {j} : job'[k] = job[k]
  BY StepAlone DEF SwapInv, Alone
<1>2. PICK r : /\ r = JobOf(p) /\ r.new \in Servers \cup {None} /\ None \notin Servers
               /\ RowOK(j, r) /\ Known(p)
  BY <1>1, Busy
<1>3. /\ cloud \in [Servers -> {"absent", "live", "deleted", "lost"}]
      /\ label \in [Servers -> Names \cup {None}]
      /\ vps \in [Servers -> {"none", "current", "replacement", "deleted"}]
      /\ node \in [state : NodeState, host : Servers, name : 0..MaxFaults]
  BY <1>1, Typed
<1>4. CASE Steady
  BY <1>1, <1>4 DEF Steady, Aside
<1>5. CASE CreateServer(p)
  <2> DEFINE n == worker[p].name
  <2>1. At(p, "create") /\ n[2] = j /\ n # None
    BY <1>1, <1>2, <1>5
    DEF CreateServer, At, Known, IndTypeOK, TypeOK, WorkersTyped, LocalsKnown
  <2>2. /\ inflight' \subseteq inflight \cup {n} /\ UNCHANGED <<vps, node>>
        /\ \/ UNCHANGED <<cloud, label>>
           \/ \E s \in Fresh : Creates(s, n)
    BY <1>5 DEF CreateServer, registry
  <2>3. ASSUME NEW s \in Fresh, Creates(s, n) PROVE Aside(j)
    <3>1. s \in Servers /\ cloud[s] = "absent" /\ label[s] = None
      BY DEF Fresh, SwapInv, World
    <3>2. /\ cloud' = [cloud EXCEPT ![s] = "live"]
          /\ label' = [label EXCEPT ![s] = n]
      BY <2>3 DEF Creates
    <3> HIDE DEF n
    <3> QED
      BY <1>1, <1>3, <2>1, <2>2, <3>1, <3>2 DEF Aside
  <2>4. ASSUME UNCHANGED <<cloud, label>> PROVE Aside(j)
    BY <1>1, <2>1, <2>2, <2>4 DEF Aside
  <2> QED
    BY <2>2, <2>3, <2>4
<1>6. CASE RecordServer(p)
  BY <1>1, <1>3, <1>6 DEF RecordServer, outside, Aside
<1>7. CASE CandidateGone(p)
  <2>1. r.new # None
    BY <1>2, <1>7 DEF CandidateGone, Tx, Commits, NeedsNew, At
  <2>2. vps' = [vps EXCEPT ![r.new] = "deleted"] /\ UNCHANGED <<outside, node>>
    BY <1>2, <1>7 DEF CandidateGone
  <2> QED
    BY <1>1, <1>2, <1>3, <2>1, <2>2 DEF outside, Aside, RowOK
<1>8. CASE RecordTempCleanup(p)
  <2>1. /\ vps' = [s \in Servers |-> IF s = r.new THEN "deleted" ELSE vps[s]]
        /\ UNCHANGED <<outside, node>>
    BY <1>2, <1>8 DEF RecordTempCleanup
  <2> QED
    BY <1>1, <1>2, <1>3, <2>1 DEF outside, Aside, RowOK
<1>9. CASE DeleteTemporary(p) \/ DeleteOldVps(p)
  <2>1. /\ UNCHANGED <<label, inflight, vps, node>>
        /\ cloud' = cloud \/ cloud' = [cloud EXCEPT ![worker[p].srv] = "deleted"]
    BY <1>9 DEF DeleteTemporary, DeleteOldVps, Deletes, registry
  <2>2. \A s \in Servers : cloud'[s] = "live" => cloud[s] = "live"
    BY <1>3, <2>1
  <2> QED
    BY <1>1, <2>1, <2>2 DEF Aside
<1>10. CASE Finish(p)
  <2>1. /\ vps' = [vps EXCEPT ![r.old] = "deleted", ![r.new] = "current"]
        /\ UNCHANGED outside /\ node'.name = node.name
    BY <1>2, <1>3, <1>10 DEF Finish
  <2>2. cloud[r.old] # "live"
    BY <1>2, <1>10 DEF Known, Finish, At
  <2> QED
    BY <1>1, <1>2, <1>3, <2>1, <2>2 DEF outside, Aside
<1> QED
  BY <1>1, <1>4, <1>5, <1>6, <1>7, <1>8, <1>9, <1>10, SteadyOrNot DEF Unsteady

\* A step of p is fine if it is for p and its job.
LEMMA StepSingle ==
  ASSUME SwapInv, AllTidy, AllSure, NEW p \in Workers, Step(p), NEW j \in Jobs, j = Of(p),
         Tidy(j)', Sure(p)'
  PROVE  AllTidy' /\ AllSure'
<1>1. Aside(j) /\ Alone(p) /\ ~At(p, "idle")
  BY StepAside, StepAlone DEF SwapInv
<1>2. ASSUME NEW k \in Jobs, k # j PROVE Tidy(k)'
  BY <1>1, <1>2, AsideTidy DEF AllTidy
<1>3. ASSUME NEW q \in Workers, q # p PROVE Sure(q)'
  <2>1. worker'[q] = worker[q] /\ (~At(q, "idle") => Of(q) # j)
    BY <1>1, <1>3, HoldersDiffer DEF Alone, SwapInv, LeaseMutex, Of
  <2> QED
    BY <1>1, <2>1, AsideSure DEF AllSure
<1> QED
  BY <1>2, <1>3 DEF AllTidy, AllSure

\* A job stays tidy when no server of it starts and its row, with the same
\* server and attempt, goes to a checkpoint that fits them.
LEMMA RowTidy ==
  ASSUME SwapInv, NEW j \in Jobs, Tidy(j), NEW q, job'[j] = q,
         UNCHANGED <<label, inflight>>, node'.name = node.name,
         \A s \in Servers : cloud'[s] = "live" => cloud[s] = "live",
         \A s \in Servers : vps'[s] = "deleted" => vps[s] = "deleted" \/ cloud'[s] # "live",
         q.new = job[j].new, q.attempt = job[j].attempt,
         q.requested = job[j].requested \/ NoPending(j),
         \/ q.cp = job[j].cp
         \/ /\ q.cp \notin {"none", "created", "provisioning"}
            /\ q.cp \in {"provisioned", "checking_ip", "temp_cleanup"} => q.new # None
            /\ q.cp \in {"failed", "cancelled"} \/ NoPending(j)
  PROVE  Tidy(j)'
<1>1. q.new \in Servers \cup {None} /\ NameOf(j)' = NameOf(j)
  BY Typed DEF SwapInv, NameOf
<1>2. \A s \in Servers : /\ Bought(s, j)' <=> Bought(s, j)
                         /\ Only(j, s) => Only(j, s)'
  BY DEF Bought, Only
<1>3. \A n : Candidates(n) = {} => Candidates(n)' = {}
  BY DEF Candidates
<1>4. \A s \in Servers : cloud'[s] = "live" /\ Bought(s, j)' =>
        label'[s] = NameOf(j) /\ Only(j, s)'
  BY <1>2 DEF Tidy
<1>5. \A n \in inflight' : n[2] = j =>
        /\ n = NameOf(j) /\ Candidates(n)' = {} /\ q.requested /\ q.new = None
        /\ q.cp \in {"provisioning", "failed", "cancelled"}
  <2> SUFFICES ASSUME NEW n \in inflight, n[2] = j
               PROVE  /\ n = NameOf(j) /\ Candidates(n)' = {} /\ q.requested /\ q.new = None
                      /\ q.cp \in {"provisioning", "failed", "cancelled"}
    OBVIOUS
  <2>1. ~NoPending(j)
    BY DEF NoPending
  <2> QED
    BY <1>3, <2>1 DEF Tidy
<1>6. q.new # None => Only(j, q.new)'
  BY <1>1, <1>2 DEF Tidy
<1>7. q.new # None /\ vps'[q.new] = "deleted" => cloud'[q.new] # "live"
  BY <1>1 DEF Tidy
<1>8. /\ q.cp \in {"none", "created"} => \A s \in Servers : ~Bought(s, j)'
      /\ q.cp \in {"none", "created", "provisioning"} => q.new = None
      /\ q.cp \in {"provisioned", "checking_ip"} => q.new # None
      /\ q.cp = "temp_cleanup" /\ q.new = None => q.attempt = MaxAttempts
  BY <1>2 DEF Tidy
<1> QED
  BY <1>1, <1>4, <1>5, <1>6, <1>7, <1>8 DEF Tidy

\* Whoever is on his way out, or back to the loop, relies on nothing.
LEMMA RestSure ==
  ASSUME NEW p \in Workers, worker'[p].pc \in {"idle", "loop", "release", "fail"}
  PROVE  Sure(p)'
BY DEF Sure

\* Steps inside a stage that lead to one that relies on no more.
CarriedTo ==
  { "loop", "release", "fail", "running", "boot", "rounds", "ip_ok", "ip_bad", "temp_delete",
    "deploy", "redeploy", "deploy_failed", "deploy_record", "master_get", "master_test",
    "master_put", "master_record", "master_verify", "verify_record", "final_probe",
    "final_record", "rollback", "rollback_verify", "old_delete", "finish" }

\* What a step within a stage, to a step that relies on no more, leaves true.
LEMMA CarriesOn ==
  ASSUME NEW p \in Workers, Sure(p), inflight' = inflight,
         worker'[p].job = worker[p].job, worker'[p].pc \in CarriedTo,
         \/ worker[p].pc \notin {"idle", "loop", "release", "fail", "provisioning", "find"}
         \/ worker'[p].pc \in {"idle", "loop", "release", "fail"}
  PROVE  Sure(p)'
<1>1. Of(p)' = Of(p)
  BY DEF Of
<1>2. worker'[p].pc \notin {"idle", "loop", "release", "fail"} => NoPending(Of(p))'
  BY <1>1 DEF Sure, NoPending, CarriedTo
<1> QED
  BY <1>2 DEF Sure, CarriedTo

\* The steps that read, or do not touch, the row and lead to such a step.
Carrying(p) ==
  \/ Defer(p) \/ Break(p) \/ Refused(p) \/ RecordRunning(p) \/ StageCheckingIp(p)
  \/ ProbeRounds(p) \/ StageDeploying(p) \/ Deploy(p) \/ Reverify(p) \/ StageNodeVerified(p)
  \/ StageMasterUpdating(p) \/ UpdateMaster(p) \/ StageMasterVerifying(p) \/ VerifyMaster(p)
  \/ StageFinalCheck(p) \/ FinalProbe(p) \/ Rollback(p) \/ RollbackVerified(p)
  \/ StageOldVpsCleanup(p)

\* The operations that only carry their stage on.
LEMMA CarryingSteps ==
  ASSUME SwapInv, AllTidy, AllSure, NEW p \in Workers, Step(p), Carrying(p)
  PROVE  AllTidy' /\ AllSure'
<1>1. ~At(p, "idle") /\ IndTypeOK
  BY StepAlone DEF SwapInv
<1>2. PICK j \in Jobs : j = Of(p) /\ Tidy(j) /\ Sure(p)
  BY <1>1, Busy
<1>3. job' = job /\ Steady
  <2>1. SameRow(p)
    BY DEF Carrying, SameRow
  <2>2. UNCHANGED <<cloud, label, inflight, vps, node>>
    BY DEF Carrying, Defer, Break, Refused, Raises, RecordRunning, StageCheckingIp,
       ProbeRounds, StageDeploying, Deploy, Reverify, StageNodeVerified,
       StageMasterUpdating, UpdateMaster, StageMasterVerifying, VerifyMaster,
       StageFinalCheck, FinalProbe, Rollback, RollbackVerified, StageOldVpsCleanup,
       registry, outside
  <2> QED
    BY <1>1, <2>1, <2>2, SameRowKept DEF Steady
<1>4. Tidy(j)'
  BY <1>2, <1>3, RowTidy DEF Steady
<1>5. /\ worker'[p].job = worker[p].job /\ worker'[p].pc \in CarriedTo
      /\ \/ worker[p].pc \notin {"idle", "loop", "release", "fail", "provisioning", "find"}
         \/ worker'[p].pc \in {"idle", "loop", "release", "fail"}
  <2>1. CASE StageDeploying(p)
    <3>1. PICK l, s, c, n : /\ worker' = [worker EXCEPT ![p].pc = l, ![p].srv = s,
                                                      ![p].cp = c, ![p].nst = n]
                            /\ l \in {"deploy", "redeploy", "deploy_failed"}
      BY <2>1 DEF StageDeploying, Resumed
    <3>2. worker'[p].pc = l /\ worker'[p].job = worker[p].job
      BY <1>1, <3>1, Typed DEF Execution
    <3> QED
      BY <2>1, <3>1, <3>2 DEF StageDeploying, At, CarriedTo
  <2>2. CASE ~StageDeploying(p)
    <3>1. \E l \in CarriedTo : \E s :
            /\ Goto(p, l) \/ GotoWith(p, l, s)
            /\ \/ worker[p].pc \notin {"idle", "loop", "release", "fail", "provisioning", "find"}
               \/ l \in {"loop", "release", "fail"}
      <4>1. CASE Defer(p) \/ Break(p) \/ Refused(p) \/ RollbackVerified(p)
        BY <4>1 DEF Defer, Break, Refused, Raises, RollbackVerified, CarriedTo
      <4>2. CASE ~(Defer(p) \/ Break(p) \/ Refused(p) \/ RollbackVerified(p))
        BY <2>2, <4>2 DEF Carrying, RecordRunning, StageCheckingIp, ProbeRounds,
           Deploy, Reverify, StageNodeVerified, StageMasterUpdating, UpdateMaster,
           Interrupted, StageMasterVerifying, VerifyMaster, StageFinalCheck, FinalProbe,
           Rollback, StageOldVpsCleanup, At, CarriedTo
      <4> QED
        BY <4>1, <4>2
    <3> QED
      BY <1>1, <3>1, GotoSteps DEF StepTo
  <2> QED
    BY <2>1, <2>2
<1>6. Sure(p)'
  BY <1>2, <1>3, <1>5, CarriesOn DEF Steady
<1> QED
  BY <1>2, <1>4, <1>6, StepSingle

\* Moving the checkpoint keeps the job tidy: the candidate is known by then.
LEMMA MovedRowTidy ==
  ASSUME SwapInv, AllTidy, AllSure, NEW p \in Workers, Step(p), MovedRow(p)
  PROVE  AllTidy' /\ AllSure'
<1>1. ~At(p, "idle") /\ IndTypeOK /\ Goto(p, "loop")
  BY StepAlone, MovedRowOnto DEF SwapInv
<1>2. PICK t \in Running : Onto(p, t)
  BY <1>1, MovedRowOnto
<1>3. PICK j \in Jobs, r \in JobRow, q \in {job'[Of(p)]} :
        j = Of(p) /\ r = JobOf(p) /\ r = job[j] /\ q = job'[j]
  BY <1>1, Busy
<1>4. /\ Tidy(j) /\ Sure(p) /\ Placed(p) /\ r.new \in Servers \cup {None} /\ None \notin Servers
      /\ r.cp \in Running /\ r.cp # "cancelled"
  BY <1>1, <1>2, <1>3, Busy, MovesFrom DEF Onto, Running, Checkpoint
<1>5. worker[p].pc \in { "gone", "boot", "ip_ok", "ip_bad", "ip_verified", "master_test",
                         "master_record", "master_updated", "verify_record",
                         "master_verified", "final_record", "final_verified" }
  BY DEF MovedRow, CandidateGone, BootGrace, PassIp, RejectIp, StageIpVerified, TestMaster,
     RecordMasterUpdate, StageMasterUpdated, RecordMasterVerified, StageMasterVerified,
     RecordFinal, StageFinalVerified, At
<1>6. /\ q.cp = t /\ q.new = r.new /\ q.attempt = r.attempt /\ q.requested = r.requested
      /\ <<worker[p].pc, t>> \in Target
  BY <1>2, <1>3 DEF Onto
<1>7. NoPending(j)
  BY <1>3, <1>4, <1>5 DEF Sure
<1>8. /\ t \notin {"none", "created", "provisioning", "failed", "cancelled"}
      /\ t \in {"provisioned", "checking_ip", "temp_cleanup"} => r.new # None
  <2>1. t \in {"provisioned", "checking_ip", "temp_cleanup"} =>
          r.cp \in {"provisioned", "checking_ip"}
    BY <1>3, <1>4, <1>5, <1>6 DEF Placed, Target
  <2>2. r.cp \in {"provisioned", "checking_ip"} => r.new # None
    BY <1>3, <1>4 DEF Tidy
  <2> QED
    BY <1>5, <1>6, <2>1, <2>2 DEF Target
<1>9. /\ UNCHANGED <<cloud, label, inflight>> /\ node'.name = node.name
      /\ \A s \in Servers : vps'[s] = "deleted" => vps[s] = "deleted" \/ cloud'[s] # "live"
  <2>1. CASE Steady
    BY <2>1 DEF Steady
  <2>2. CASE CandidateGone(p)
    <3>1. vps' = [vps EXCEPT ![r.new] = "deleted"] /\ UNCHANGED <<outside, node>>
      BY <1>3, <2>2 DEF CandidateGone
    <3>2. r.new # None => cloud[r.new] # "live"
      BY <1>3, <1>4, <2>2 DEF CandidateGone, At, Sure
    <3> QED
      BY <1>1, <1>4, <3>1, <3>2, Typed DEF outside
  <2>3. Unsteady(p) => CandidateGone(p)
    BY <1>5 DEF Unsteady, CreateServer, RecordServer, DeleteTemporary, RecordTempCleanup,
       DeleteOldVps, Finish, At
  <2> QED
    BY <1>1, <2>1, <2>2, <2>3, SteadyOrNot
<1>10. Tidy(j)'
  BY <1>3, <1>4, <1>6, <1>7, <1>8, <1>9, RowTidy
<1>11. Sure(p)'
  BY <1>1, GotoSteps, RestSure DEF StepTo
<1> QED
  BY <1>3, <1>10, <1>11, StepSingle

\* Steps that end a job, or write columns of its row that tell nothing here.
LEMMA PlainRowTidy ==
  ASSUME SwapInv, AllTidy, AllSure, NEW p \in Workers, Step(p),
         RecordDeployment(p) \/ SnapshotMaster(p) \/ Finish(p) \/ FailJob(p)
  PROVE  AllTidy' /\ AllSure'
<1>1. ~At(p, "idle") /\ IndTypeOK
  BY StepAlone DEF SwapInv
<1>2. PICK j \in Jobs, r \in JobRow, q \in {job'[Of(p)]} :
        j = Of(p) /\ r = JobOf(p) /\ r = job[j] /\ q = job'[j]
  BY <1>1, Busy
<1>3. /\ Tidy(j) /\ Sure(p) /\ Known(p) /\ r.new \in Servers \cup {None} /\ None \notin Servers
      /\ j = worker[p].job /\ job \in [Jobs -> JobRow]
  BY <1>1, <1>2, Busy, Typed
<1>4. At(p, "deploy_record") \/ At(p, "master_get") \/ At(p, "finish") => NoPending(j)
  BY <1>2, <1>3 DEF Sure, At
<1>5. /\ UNCHANGED <<cloud, label, inflight>> /\ node'.name = node.name
      /\ \A s \in Servers : vps'[s] = "deleted" => vps[s] = "deleted" \/ cloud'[s] # "live"
  <2>1. CASE Steady
    BY <2>1 DEF Steady
  <2>2. CASE Finish(p)
    <3>1. /\ vps' = [vps EXCEPT ![r.old] = "deleted", ![r.new] = "current"]
          /\ UNCHANGED outside /\ node'.name = node.name
      BY <1>1, <1>2, <2>2, Typed DEF Finish
    <3>2. cloud[r.old] # "live"
      BY <1>2, <1>3, <2>2 DEF Known, Finish, At
    <3> QED
      BY <1>1, <3>1, <3>2, Typed DEF outside
  <2>3. Unsteady(p) => Finish(p)
    BY DEF Unsteady, CreateServer, RecordServer, CandidateGone, DeleteTemporary,
       RecordTempCleanup, DeleteOldVps, RecordDeployment, SnapshotMaster, Finish, FailJob, At
  <2> QED
    BY <1>1, <2>1, <2>2, <2>3, SteadyOrNot
<1>6. /\ q.new = r.new /\ q.attempt = r.attempt /\ q.requested = r.requested
      /\ \/ q.cp = r.cp
         \/ q.cp \in {"node_verified", "completed"} /\ NoPending(j)
         \/ q.cp = "failed"
  <2>1. CASE RecordDeployment(p)
    <3>1. job' = [job EXCEPT ![j].cp = "node_verified", ![j].deployVerified = TRUE]
      BY <1>3, <2>1 DEF RecordDeployment
    <3>2. /\ job'[j].cp = "node_verified" /\ job'[j].new = r.new
          /\ job'[j].attempt = r.attempt /\ job'[j].requested = r.requested
      BY <1>2, <1>3, <3>1 DEF JobRow
    <3> QED
      BY <1>2, <1>4, <2>1, <3>2 DEF RecordDeployment
  <2>2. CASE SnapshotMaster(p)
    <3>1. PICK v : job' = [job EXCEPT ![j].snap = v]
      BY <1>3, <2>2 DEF SnapshotMaster
    <3>2. /\ job'[j].cp = r.cp /\ job'[j].new = r.new
          /\ job'[j].attempt = r.attempt /\ job'[j].requested = r.requested
      BY <1>2, <1>3, <3>1 DEF JobRow
    <3> QED
      BY <1>2, <3>2
  <2>3. ASSUME NEW t \in Terminal, job' = [job EXCEPT ![j] = Moved(r, t)]
        PROVE  /\ q.cp = t /\ q.new = r.new /\ q.attempt = r.attempt
               /\ q.requested = r.requested
    <3>1. q = Moved(r, t)
      BY <1>2, <1>3, <2>3
    <3> QED
      BY <3>1 DEF Moved, JobRow
  <2>4. CASE Finish(p)
    <3>1. job' = [job EXCEPT ![j] = Moved(r, "completed")] /\ At(p, "finish")
      BY <1>2, <1>3, <2>4 DEF Finish, Tx
    <3> QED
      BY <1>4, <2>3, <3>1 DEF Terminal
  <2>5. CASE FailJob(p)
    <3>1. job' = job \/ job' = [job EXCEPT ![j] = Moved(r, "failed")]
      BY <1>2, <1>3, <2>5 DEF FailJob
    <3> QED
      BY <1>2, <2>3, <3>1 DEF Terminal
  <2> QED
    BY <2>1, <2>2, <2>4, <2>5
<1>7. Tidy(j)'
  BY <1>2, <1>3, <1>5, <1>6, RowTidy
<1>8. Sure(p)'
  <2>1. CASE SnapshotMaster(p)
    <3>1. At(p, "master_get") /\ StepTo(p, "master_test", worker[p].srv)
      BY <1>1, <2>1, GotoSteps DEF SnapshotMaster
    <3> QED
      BY <1>3, <1>5, <3>1, CarriesOn DEF StepTo, CarriedTo, At
  <2>2. CASE ~SnapshotMaster(p)
    <3>1. PICK l \in {"loop", "release"} : Goto(p, l)
      BY <2>2 DEF RecordDeployment, Finish, FailJob
    <3>2. worker'[p].pc = l
      BY <1>1, <3>1, GotoSteps DEF StepTo
    <3> QED
      BY <3>2, RestSure
  <2> QED
    BY <2>1, <2>2
<1> QED
  BY <1>2, <1>7, <1>8, StepSingle

\* Where an execution is led by the checkpoint it reads, or by its candidate.
LEMMA LeadingSteps ==
  ASSUME SwapInv, AllTidy, AllSure, NEW p \in Workers, Step(p),
         Dispatch(p) \/ Release(p) \/ StageProvisioned(p) \/ ServerReady(p)
           \/ StageTempCleanup(p)
  PROVE  AllTidy' /\ AllSure'
<1>1. ~At(p, "idle") /\ IndTypeOK /\ job' = job
  BY StepAlone, SameRowKept DEF SwapInv, SameRow
<1>2. PICK j \in Jobs, r \in JobRow : j = Of(p) /\ r = JobOf(p) /\ r = job[j]
  BY <1>1, Busy
<1>3. /\ Tidy(j) /\ Sure(p) /\ r.new \in Servers \cup {None} /\ None \notin Servers
      /\ r.cp \in Checkpoint /\ worker \in [Workers -> Execution]
  BY <1>1, <1>2, Busy, BusyRow, Typed
<1>4. UNCHANGED <<cloud, label, inflight, vps, node>>
  BY DEF Dispatch, Release, StageProvisioned, ServerReady, StageTempCleanup, registry, outside
<1>5. Tidy(j)'
  BY <1>1, <1>2, <1>3, <1>4, RowTidy
<1>6. ASSUME NEW l, worker'[p].pc = l, worker'[p].job = worker[p].job,
             l = "provisioning" => r.new = None,
             l \notin {"find", "create", "record"},
             l = "ready" => worker'[p].srv = r.new,
             l \in {"gone", "temp_record"} /\ r.new # None => cloud[r.new] # "live",
             l \notin {"idle", "loop", "release", "fail", "provisioning", "find"} => NoPending(j)
      PROVE  Sure(p)'
  <2>1. Of(p)' = j /\ JobOf(p)' = r /\ (NoPending(j) => NoPending(j)')
    BY <1>1, <1>2, <1>4, <1>6 DEF Of, JobOf, NoPending
  <2> QED
    BY <1>4, <1>6, <2>1 DEF Sure
<1>7. CASE Dispatch(p)
  <2>1. PICK l : /\ worker' = [worker EXCEPT ![p] =
                                [Asleep EXCEPT !.job = worker[p].job, !.pc = l]]
                 /\ l = IF r.cp \in Terminal THEN "release" ELSE r.cp
    BY <1>2, <1>7 DEF Dispatch
  <2>2. worker'[p].pc = l /\ worker'[p].job = worker[p].job
    BY <1>3, <2>1 DEF Asleep
  <2>3. l \in Running \cup {"release"}
    BY <1>3, <2>1 DEF Checkpoint
  <2>4. l \in Running => l = r.cp
    BY <1>3, <2>1 DEF Running
  <2>5. l \in Running \ {"provisioning"} => NoPending(j)
    BY <1>2, <1>3, <2>4 DEF Tidy, NoPending, Running
  <2>6. l = "provisioning" => r.new = None
    BY <1>2, <1>3, <2>4 DEF Tidy, Running
  <2>7. /\ l \notin {"find", "create", "record", "ready", "gone", "temp_record"}
        /\ l \notin {"idle", "loop", "release", "fail", "provisioning", "find"} => NoPending(j)
    BY <2>3, <2>5 DEF Running
  <2>8. Sure(p)'
    BY <1>6, <2>2, <2>6, <2>7
  <2> QED
    BY <1>2, <1>5, <2>8, StepSingle
<1>8. CASE Release(p)
  <2>1. worker'[p].pc = "idle"
    BY <1>3, <1>8 DEF Release, Asleep
  <2> QED
    BY <1>2, <1>5, <2>1, RestSure, StepSingle
<1>9. CASE StageProvisioned(p)
  <2>1. At(p, "provisioned") /\ StepTo(p, "ready", r.new)
    BY <1>1, <1>2, <1>9, GotoSteps DEF StageProvisioned
  <2>2. NoPending(j)
    BY <1>2, <1>3, <2>1 DEF Sure, At
  <2>3. Sure(p)'
    BY <1>6, <2>1, <2>2 DEF StepTo
  <2> QED
    BY <1>2, <1>5, <2>3, StepSingle
<1>10. CASE ServerReady(p)
  <2>1. PICK l : /\ At(p, "ready") /\ StepTo(p, l, worker[p].srv)
                 /\ l = IF cloud[worker[p].srv] = "live" THEN "running" ELSE "gone"
    BY <1>1, <1>10, GotoSteps DEF ServerReady
  <2>2. NoPending(j) /\ worker[p].srv = r.new
    BY <1>2, <1>3, <2>1 DEF Sure, At
  <2>3. Sure(p)'
    BY <1>6, <2>1, <2>2 DEF StepTo
  <2> QED
    BY <1>2, <1>5, <2>3, StepSingle
<1>11. CASE StageTempCleanup(p)
  <2>1. PICK l, s : /\ At(p, "temp_cleanup") /\ StepTo(p, l, s)
                    /\ l \in {"temp_delete", "temp_record"}
                    /\ l = "temp_record" => (r.new # None => vps[r.new] = "deleted")
    BY <1>1, <1>2, <1>11, GotoSteps DEF StageTempCleanup
  <2>2. NoPending(j) /\ (r.new # None /\ vps[r.new] = "deleted" => cloud[r.new] # "live")
    BY <1>2, <1>3, <2>1 DEF Sure, At, Tidy
  <2>3. Sure(p)'
    BY <1>6, <2>1, <2>2 DEF StepTo
  <2> QED
    BY <1>2, <1>5, <2>3, StepSingle
<1> QED
  BY <1>7, <1>8, <1>9, <1>10, <1>11

\* Deletions.
LEMMA DeletionsTidy ==
  ASSUME SwapInv, AllTidy, AllSure, NEW p \in Workers, Step(p),
         DeleteTemporary(p) \/ DeleteOldVps(p)
  PROVE  AllTidy' /\ AllSure'
<1>1. ~At(p, "idle") /\ IndTypeOK /\ job' = job
  BY StepAlone, SameRowKept DEF SwapInv, SameRow
<1>2. PICK j \in Jobs, r \in JobRow : j = Of(p) /\ r = JobOf(p) /\ r = job[j]
  BY <1>1, Busy
<1>3. /\ Tidy(j) /\ Sure(p) /\ Known(p) /\ r.new \in Servers \cup {None} /\ None \notin Servers
      /\ cloud \in [Servers -> {"absent", "live", "deleted", "lost"}]
  BY <1>1, <1>2, Busy, Typed
<1>4. /\ UNCHANGED <<label, inflight, vps, node>>
      /\ cloud' = cloud \/ cloud' = [cloud EXCEPT ![worker[p].srv] = "deleted"]
  BY DEF DeleteTemporary, DeleteOldVps, Deletes, registry
<1>5. \A s \in Servers : cloud'[s] = "live" => cloud[s] = "live"
  BY <1>3, <1>4
<1>6. Tidy(j)'
  BY <1>1, <1>2, <1>3, <1>4, <1>5, RowTidy
<1>7. CASE DeleteOldVps(p)
  <2>1. PICK l \in {"finish", "release"} : StepTo(p, l, worker[p].srv) /\ At(p, "old_delete")
    BY <1>1, <1>7, GotoSteps DEF DeleteOldVps
  <2>2. Sure(p)'
    BY <1>3, <1>4, <2>1, CarriesOn DEF StepTo, CarriedTo, At
  <2> QED
    BY <1>2, <1>6, <2>2, StepSingle
<1>8. CASE DeleteTemporary(p)
  <2>1. /\ At(p, "temp_delete") /\ worker[p].srv = r.new /\ r.new \in Servers /\ NoPending(j)
    BY <1>2, <1>3, <1>8 DEF DeleteTemporary, Known, Sure, At
  <2>2. CASE Goto(p, "temp_record") /\ cloud'[r.new] # "live"
    <3>1. StepTo(p, "temp_record", worker[p].srv)
      BY <1>1, <2>2, GotoSteps
    <3>2. Of(p)' = j /\ JobOf(p)' = r /\ NoPending(j)'
      BY <1>1, <1>2, <1>4, <2>1, <3>1 DEF Of, JobOf, NoPending, StepTo
    <3>3. Sure(p)'
      BY <2>2, <3>1, <3>2 DEF Sure, StepTo
    <3> QED
      BY <1>2, <1>6, <3>3, StepSingle
  <2>3. CASE Goto(p, "release") \/ Goto(p, "fail")
    <3>1. worker'[p].pc \in {"release", "fail"}
      BY <1>1, <2>3, GotoSteps DEF StepTo
    <3> QED
      BY <1>2, <1>6, <3>1, RestSure, StepSingle
  <2> QED
    BY <1>3, <1>8, <2>1, <2>2, <2>3 DEF DeleteTemporary, Deletes
<1> QED
  BY <1>7, <1>8

\* The lookup before a create: what it finds is the job's only server, and when
\* it finds none, and grants an earlier request its time, none is on its way.
LEMMA LookupTidy ==
  ASSUME SwapInv, AllTidy, AllSure, NEW p \in Workers, Step(p),
         StageProvisioning(p) \/ FindCandidate(p)
  PROVE  AllTidy' /\ AllSure'
<1>1. ~At(p, "idle") /\ IndTypeOK
  BY StepAlone DEF SwapInv
<1>2. PICK j \in Jobs, r \in JobRow : j = Of(p) /\ r = JobOf(p) /\ r = job[j]
  BY <1>1, Busy
<1>3. /\ Tidy(j) /\ Sure(p) /\ r.new \in Servers \cup {None} /\ None \notin Servers
      /\ j = worker[p].job /\ job \in [Jobs -> JobRow] /\ worker \in [Workers -> Execution]
      /\ NameOf(j) \in Names /\ NameOf(j)[2] = j
  BY <1>1, <1>2, Busy, Typed, NameTyped
<1>4. UNCHANGED <<cloud, label, inflight, vps, node>>
  BY DEF StageProvisioning, FindCandidate, outside
<1>5. r.new = None
  BY <1>2, <1>3 DEF StageProvisioning, FindCandidate, At, Sure
<1>6. ASSUME job' = job PROVE Tidy(j)'
  BY <1>2, <1>3, <1>4, <1>6, RowTidy
<1>7. ASSUME job' = job, NEW l \in {"fail", "release"}, Goto(p, l)
      PROVE  AllTidy' /\ AllSure'
  <2>1. worker'[p].pc = l
    BY <1>1, <1>7, GotoSteps DEF StepTo
  <2> QED
    BY <1>2, <1>6, <1>7, <2>1, RestSure, StepSingle
<1>8. CASE StageProvisioning(p)
  <2>1. /\ job' = job
        /\ worker' = [worker EXCEPT ![p].pc = "find", ![p].name = NameOf(j),
                                    ![p].req = r.requested, ![p].room = HasRoom]
    BY <1>2, <1>3, <1>5, <1>8 DEF StageProvisioning
  <2>2. /\ worker'[p].pc = "find" /\ worker'[p].name = NameOf(j)
        /\ worker'[p].req = r.requested /\ worker'[p].job = j
    BY <1>3, <2>1 DEF Execution
  <2>3. Of(p)' = j /\ JobOf(p)' = r /\ NameOf(j)' = NameOf(j)
    BY <1>2, <1>4, <2>1, <2>2 DEF Of, JobOf, NameOf
  <2>4. Sure(p)'
    BY <1>5, <2>2, <2>3 DEF Sure
  <2> QED
    BY <1>2, <1>6, <2>1, <2>4, StepSingle
<1>9. CASE FindCandidate(p)
  <2>1. At(p, "find") /\ worker[p].name = NameOf(j) /\ worker[p].req = r.requested
    BY <1>2, <1>3, <1>9 DEF FindCandidate, At, Sure
  <2>2. ASSUME NEW s \in Candidates(NameOf(j)), GotoWith(p, "record", s), job' = job
        PROVE  AllTidy' /\ AllSure'
    <3>1. StepTo(p, "record", s) /\ s \in Servers /\ cloud[s] = "live" /\ Bought(s, j)
      BY <1>1, <1>3, <2>2, GotoSteps, NamesOwned DEF Candidates, Bought
    <3>2. Only(j, s) /\ NoPending(j)
      BY <1>2, <1>3, <2>2, <3>1 DEF Tidy, NoPending
    <3>3. /\ Of(p)' = j /\ JobOf(p)' = r /\ NoPending(j)' /\ Only(j, s)'
      BY <1>2, <1>3, <1>4, <2>2, <3>1, <3>2
      DEF Of, JobOf, NoPending, Only, Bought, StepTo
    <3>4. Sure(p)'
      BY <1>5, <3>1, <3>3 DEF Sure, StepTo
    <3> QED
      BY <1>2, <1>6, <2>2, <3>4, StepSingle
  <2>3. ASSUME Candidates(NameOf(j)) = {}, ~(r.requested /\ NameOf(j) \in inflight),
               Goto(p, "create"), job' = [job EXCEPT ![j].requested = TRUE]
        PROVE  AllTidy' /\ AllSure'
    <3>1. NoPending(j)
      BY <1>2, <1>3, <2>3 DEF Tidy, NoPending
    <3>2. PICK q : /\ q = job'[j] /\ q.requested /\ q.new = r.new /\ q.cp = r.cp
                   /\ q.attempt = r.attempt
      BY <1>2, <1>3, <2>3 DEF JobRow
    <3>3. Tidy(j)'
      BY <1>2, <1>3, <1>4, <3>1, <3>2, RowTidy
    <3>4. StepTo(p, "create", worker[p].srv)
      BY <1>1, <2>3, GotoSteps
    <3>5. /\ Of(p)' = j /\ JobOf(p)' = q /\ NoPending(j)' /\ NameOf(j)' = NameOf(j)
          /\ Candidates(NameOf(j))' = {}
      BY <1>2, <1>3, <1>4, <2>3, <3>1, <3>2, <3>4
      DEF Of, JobOf, NoPending, NameOf, Candidates, StepTo
    <3>6. Sure(p)'
      BY <1>5, <2>1, <3>2, <3>4, <3>5 DEF Sure, StepTo
    <3> QED
      BY <1>2, <3>3, <3>6, StepSingle
  <2> QED
    BY <1>3, <1>7, <1>9, <2>1, <2>2, <2>3 DEF FindCandidate
<1> QED
  BY <1>8, <1>9

\* A job with no server and no request is tidy under any name.
LEMMA BareTidy ==
  ASSUME NEW j \in Jobs, NEW q, job'[j] = q, UNCHANGED <<label, inflight>>,
         \A s \in Servers : cloud'[s] = "live" => cloud[s] = "live",
         \A s \in Servers : cloud[s] = "live" => ~Bought(s, j),
         NoPending(j), q.new = None, q.cp = "provisioning"
  PROVE  Tidy(j)'
<1>1. \A s \in Servers : cloud'[s] = "live" => ~Bought(s, j)'
  BY DEF Bought
<1>2. NoPending(j)'
  BY DEF NoPending
<1> QED
  BY <1>1, <1>2 DEF Tidy, NoPending

\* The first attempt, the recorded candidate, and the end of an attempt.
LEMMA AttemptSteps ==
  ASSUME SwapInv, AllTidy, AllSure, NEW p \in Workers, Step(p),
         StageCreated(p) \/ RecordServer(p) \/ RecordTempCleanup(p)
  PROVE  AllTidy' /\ AllSure'
<1>1. ~At(p, "idle") /\ IndTypeOK
  BY StepAlone DEF SwapInv
<1>2. PICK j \in Jobs, r \in JobRow : j = Of(p) /\ r = JobOf(p) /\ r = job[j]
  BY <1>1, Busy
<1>3. /\ Tidy(j) /\ Sure(p) /\ Known(p) /\ Placed(p) /\ RowOK(j, r)
      /\ r.new \in Servers \cup {None} /\ None \notin Servers
      /\ j = worker[p].job /\ job \in [Jobs -> JobRow] /\ r.attempt \in 0..MaxAttempts
      /\ vps \in [Servers -> {"none", "current", "replacement", "deleted"}]
  BY <1>1, <1>2, Busy, BusyRow, Typed
<1>4. UNCHANGED <<cloud, label, inflight, node>>
  BY DEF StageCreated, RecordServer, RecordTempCleanup, outside
<1>5. ASSUME NEW l \in {"loop", "fail"}, Goto(p, l), Tidy(j)'
      PROVE  AllTidy' /\ AllSure'
  <2>1. worker'[p].pc = l
    BY <1>1, <1>5, GotoSteps DEF StepTo
  <2> QED
    BY <1>2, <1>5, <2>1, RestSure, StepSingle
<1>6. ASSUME NEW t \in Running, <<worker[p].pc, t>> \in Target, Commits(p)
      PROVE  r.cp \in Running /\ r.cp # "cancelled"
  BY <1>1, <1>2, <1>6, MovesFrom DEF Checkpoint
<1>7. CASE StageCreated(p)
  <2> DEFINE m == Moved(r, "provisioning")
  <2>1. /\ At(p, "created") /\ Goto(p, "loop") /\ Commits(p)
        /\ job' = [job EXCEPT ![j] = [m EXCEPT !.attempt = IF @ < 1 THEN 1 ELSE @]]
    BY <1>2, <1>3, <1>7 DEF StageCreated, Tx
  <2>2. r.cp = "created"
    <3>1. <<worker[p].pc, "provisioning">> \in Target /\ "provisioning" \in Running
      BY <2>1 DEF At, Target, Running
    <3> QED
      BY <1>2, <1>3, <1>6, <2>1, <3>1 DEF Placed, At, Running
  <2>3. r.new = None /\ NoPending(j) /\ \A s \in Servers : ~Bought(s, j)
    BY <1>2, <1>3, <2>2 DEF Tidy, NoPending
  <2>4. m \in JobRow /\ m.cp = "provisioning" /\ m.new = r.new
    BY MovedFields DEF Running
  <2> HIDE DEF m
  <2>5. PICK q : q = job'[j] /\ q.new = None /\ q.cp = "provisioning"
    BY <1>3, <2>1, <2>3, <2>4 DEF JobRow
  <2>6. Tidy(j)'
    BY <1>4, <2>3, <2>5, BareTidy
  <2> QED
    BY <1>5, <2>1, <2>6
<1>8. CASE RecordServer(p)
  <2> DEFINE m == Moved(r, "provisioned")
             s == worker[p].srv
  <2>1. /\ At(p, "record") /\ Goto(p, "loop") /\ Commits(p)
        /\ job' = [job EXCEPT ![j] = [m EXCEPT !.new = s]]
        /\ vps' = [vps EXCEPT ![s] = IF @ = "current" THEN @ ELSE "replacement"]
    BY <1>2, <1>3, <1>8 DEF RecordServer, Tx
  <2>2. s \in Servers /\ Only(j, s) /\ NoPending(j)
    BY <1>2, <1>3, <2>1 DEF Known, Sure, At
  <2>3. PICK z : z = s
    OBVIOUS
  <2>4. m \in JobRow /\ m.cp = "provisioned" /\ m.attempt = r.attempt
    BY MovedFields DEF Running
  <2> HIDE DEF m
  <2>5. PICK q : q = job'[j] /\ q.new = z /\ q.cp = "provisioned" /\ q.attempt = r.attempt
    BY <1>3, <2>1, <2>3, <2>4 DEF JobRow
  <2>6. /\ NoPending(j)' /\ Only(j, z)' /\ NameOf(j)' = NameOf(j) /\ z # None
        /\ vps'[z] # "deleted"
    BY <1>2, <1>3, <1>4, <2>1, <2>2, <2>3, <2>5 DEF NoPending, Only, Bought, NameOf
  <2>7. \A t \in Servers : cloud'[t] = "live" /\ Bought(t, j)' =>
          label'[t] = NameOf(j) /\ Only(j, t)'
    BY <1>4, <1>3 DEF Tidy, Bought, Only
  <2>8. Tidy(j)'
    BY <2>5, <2>6, <2>7 DEF Tidy, NoPending
  <2> QED
    BY <1>5, <2>1, <2>8
<1>9. CASE RecordTempCleanup(p)
  <2> DEFINE e == [r EXCEPT !.new = None, !.requested = FALSE]
             m == Moved(e, "provisioning")
  <2>1. At(p, "temp_record") /\ Commits(p)
    BY <1>9 DEF RecordTempCleanup, Tx
  <2>2. NoPending(j) /\ (r.new # None => cloud[r.new] # "live")
    BY <1>2, <1>3, <2>1 DEF Sure, At
  <2>3. e \in JobRow /\ e.new = None /\ e.cp = r.cp /\ e.attempt = r.attempt
    BY DEF JobRow, MaybeServer
  <2>4. \/ /\ r.attempt >= MaxAttempts /\ Goto(p, "fail")
           /\ job' = [job EXCEPT ![j] = e]
        \/ /\ ~(r.attempt >= MaxAttempts) /\ Goto(p, "loop")
           /\ job' = [job EXCEPT ![j] = [m EXCEPT !.attempt = @ + 1]]
    BY <1>2, <1>3, <2>3, <1>9 DEF RecordTempCleanup, Tx
  <2> HIDE DEF e
  <2>5. m \in JobRow /\ m.cp = "provisioning" /\ m.new = None
    BY <2>3, MovedFields DEF Running
  <2> HIDE DEF m
  <2>6. CASE /\ r.attempt >= MaxAttempts /\ Goto(p, "fail")
             /\ job' = [job EXCEPT ![j] = e]
    <3>1. PICK q : q = job'[j] /\ q.new = None /\ q.cp = r.cp /\ q.attempt = r.attempt
      BY <1>3, <2>3, <2>6
    <3>2. r.cp \in {"temp_cleanup", "cancelled"} /\ r.attempt = MaxAttempts
      BY <1>2, <1>3, <2>1, <2>6, ReplacementAssumption DEF Placed, At
    <3>3. NoPending(j)' /\ NameOf(j)' = NameOf(j)
      BY <1>2, <1>4, <2>2, <3>1 DEF NoPending, NameOf
    <3>4. \A t \in Servers : cloud'[t] = "live" /\ Bought(t, j)' =>
            label'[t] = NameOf(j) /\ Only(j, t)'
      BY <1>3, <1>4, <3>3 DEF Tidy, Bought, Only
    <3>5. Tidy(j)'
      BY <3>1, <3>2, <3>3, <3>4 DEF Tidy, NoPending
    <3> QED
      BY <1>5, <2>6, <3>5
  <2>7. CASE /\ ~(r.attempt >= MaxAttempts) /\ Goto(p, "loop")
             /\ job' = [job EXCEPT ![j] = [m EXCEPT !.attempt = @ + 1]]
    <3>1. PICK q : q = job'[j] /\ q.new = None /\ q.cp = "provisioning"
      BY <1>3, <2>5, <2>7 DEF JobRow
    <3>2. r.attempt < MaxAttempts /\ r.attempt # MaxAttempts
      BY <1>3, <2>7, ReplacementAssumption
    <3>3. r.cp = "temp_cleanup"
      <4>1. CanTransition(r.cp, "provisioning")
        BY <1>2, <2>1, <3>2 DEF Commits, At
      <4>2. r.cp # "cancelled"
        BY <4>1 DEF CanTransition, Forward, Running
      <4> QED
        BY <1>2, <1>3, <2>1, <4>2 DEF Placed, At
    <3>4. \A s \in Servers : cloud[s] = "live" => ~Bought(s, j)
      <4>1. r.new # None /\ Only(j, r.new)
        BY <1>2, <1>3, <3>2, <3>3 DEF Tidy
      <4> QED
        BY <2>2, <4>1 DEF Only
    <3>5. Tidy(j)'
      BY <1>4, <2>2, <3>1, <3>4, BareTidy
    <3> QED
      BY <1>5, <2>7, <3>5
  <2> QED
    BY <2>4, <2>6, <2>7
<1> QED
  BY <1>7, <1>8, <1>9

\* A job that has no running server and no request gets one.
LEMMA FirstServerTidy ==
  ASSUME SwapInv, NEW j \in Jobs, Tidy(j), NEW s \in Fresh, Creates(s, NameOf(j)),
         UNCHANGED <<job, vps, node>>, inflight' \subseteq inflight, NoPending(j)',
         Candidates(NameOf(j)) = {}, job[j].new = None,
         job[j].cp \in {"provisioning", "failed", "cancelled"}
  PROVE  Tidy(j)' /\ Only(j, s)'
<1>1. /\ cloud \in [Servers -> {"absent", "live", "deleted", "lost"}]
      /\ label \in [Servers -> Names \cup {None}] /\ s \in Servers
      /\ NameOf(j) \in Names /\ NameOf(j)[2] = j /\ NameOf(j)' = NameOf(j)
  BY Typed, NameTyped DEF SwapInv, Fresh, NameOf
<1>2. PICK n : n = NameOf(j)
  OBVIOUS
<1>3. \A t \in Servers : cloud[t] = "live" => ~Bought(t, j)
  BY DEF Tidy, Candidates
<1>4. /\ cloud' = [cloud EXCEPT ![s] = "live"]
      /\ label' = [label EXCEPT ![s] = n]
  BY <1>2 DEF Creates
<1>5. \A t \in Servers : cloud'[t] = "live" /\ Bought(t, j)' => t = s
  BY <1>1, <1>3, <1>4 DEF Bought
<1>6. Only(j, s)' /\ label'[s] = n
  BY <1>1, <1>4, <1>5 DEF Only
<1>7. \A t \in Servers : cloud'[t] = "live" /\ Bought(t, j)' => label'[t] = NameOf(j)' /\ Only(j, t)'
  BY <1>1, <1>2, <1>5, <1>6 DEF Only
<1>8. Tidy(j)'
  BY <1>1, <1>7 DEF Tidy, NoPending
<1> QED
  BY <1>6, <1>8

\* An open request of a job whose execution goes, or has gone, away.
LEMMA RequestTidy ==
  ASSUME SwapInv, NEW j \in Jobs, Tidy(j), UNCHANGED <<job, vps, node, cloud, label>>,
         inflight' \subseteq inflight \cup {NameOf(j)},
         Candidates(NameOf(j)) = {}, job[j].new = None, job[j].requested,
         job[j].cp \in {"provisioning", "failed", "cancelled"}
  PROVE  Tidy(j)'
<1>1. NameOf(j)' = NameOf(j) /\ \A n : Candidates(n)' = Candidates(n)
  BY DEF NameOf, Candidates
<1>2. \A t \in Servers : cloud'[t] = "live" /\ Bought(t, j)' =>
        label'[t] = NameOf(j) /\ Only(j, t)'
  BY DEF Tidy, Bought, Only
<1>3. \A n \in inflight' : n[2] = j => n = NameOf(j) /\ Candidates(n)' = {}
  BY <1>1 DEF Tidy
<1> QED
  BY <1>1, <1>2, <1>3 DEF Tidy

\* A job that is at its create request has no server, no request, and its name
\* is free.
LEMMA AtCreate ==
  ASSUME SwapInv, AllTidy, AllSure, NEW p \in Workers, At(p, "create"), NEW j \in Jobs, j = Of(p)
  PROVE  /\ worker[p].name = NameOf(j) /\ Candidates(NameOf(j)) = {} /\ NoPending(j)
         /\ job[j].new = None /\ job[j].requested /\ Tidy(j)
         /\ job[j].cp \in {"provisioning", "failed", "cancelled"}
<1>1. Sure(p) /\ Tidy(j) /\ Placed(p) /\ JobOf(p) = job[j]
  BY Busy DEF At
<1>2. job[j].cp \in {"provisioning", "cancelled"}
  BY <1>1 DEF Placed, At
<1> QED
  BY <1>1, <1>2 DEF Sure, At

\* The create request, whose answer may be lost.
LEMMA CreationTidy ==
  ASSUME SwapInv, AllTidy, AllSure, NEW p \in Workers, Step(p), CreateServer(p)
  PROVE  AllTidy' /\ AllSure'
<1>1. ~At(p, "idle") /\ IndTypeOK
  BY StepAlone DEF SwapInv
<1>2. PICK j \in Jobs, r \in JobRow : j = Of(p) /\ r = JobOf(p) /\ r = job[j]
  BY <1>1, Busy
<1>3. /\ At(p, "create") /\ worker[p].name = NameOf(j) /\ Candidates(NameOf(j)) = {}
      /\ NoPending(j) /\ r.new = None /\ r.requested /\ Tidy(j)
      /\ r.cp \in {"provisioning", "failed", "cancelled"}
  BY <1>2, AtCreate DEF CreateServer
<1>4. UNCHANGED <<job, vps, node>>
  BY DEF CreateServer, registry
<1>5. ASSUME NEW s \in Fresh, Creates(s, NameOf(j)), GotoWith(p, "record", s),
             inflight' = inflight
      PROVE  AllTidy' /\ AllSure'
  <2>1. StepTo(p, "record", s)
    BY <1>1, <1>5, GotoSteps
  <2>2. NoPending(j)'
    BY <1>3, <1>5 DEF NoPending
  <2>3. Tidy(j)' /\ Only(j, s)'
    BY <1>2, <1>3, <1>4, <1>5, <2>2, FirstServerTidy
  <2>4. Of(p)' = j /\ JobOf(p)' = r
    BY <1>2, <1>4, <2>1 DEF Of, JobOf, StepTo
  <2>5. Only(j, worker[p].srv)'
    BY <2>1, <2>3 DEF Only, StepTo
  <2>6. Sure(p)'
    BY <1>3, <2>1, <2>2, <2>4, <2>5 DEF Sure, StepTo
  <2> QED
    BY <1>2, <2>3, <2>6, StepSingle
<1>6. ASSUME NEW l \in {"release", "fail"}, Goto(p, l), UNCHANGED <<cloud, label>>,
             inflight' \subseteq inflight \cup {NameOf(j)}
      PROVE  AllTidy' /\ AllSure'
  <2>1. worker'[p].pc = l
    BY <1>1, <1>6, GotoSteps DEF StepTo
  <2>2. Tidy(j)'
    BY <1>2, <1>3, <1>4, <1>6, RequestTidy
  <2> QED
    BY <1>2, <2>1, <2>2, RestSure, StepSingle
<1> QED
  BY <1>3, <1>5, <1>6 DEF CreateServer

\* All the steps of an execution.
LEMMA StepTidy ==
  ASSUME SwapInv, AllTidy, AllSure, NEW p \in Workers, Step(p)
  PROVE  AllTidy' /\ AllSure'
<1>1. CASE SameRow(p)
  BY <1>1, CarryingSteps, LeadingSteps, DeletionsTidy, CreationTidy DEF SameRow, Carrying
<1>2. CASE MovedRow(p)
  BY <1>2, MovedRowTidy
<1>3. CASE OtherRow(p)
  BY <1>3, LookupTidy, AttemptSteps, PlainRowTidy DEF OtherRow
<1> QED
  BY <1>1, <1>2, <1>3, RowCases

\* A step about job j that moves no execution but one that comes to rest.
LEMMA OutsideSingle ==
  ASSUME SwapInv, AllTidy, AllSure, NEW j \in Jobs, Aside(j), Tidy(j)',
         \A q \in Workers : \/ worker'[q].pc \in {"idle", "loop"}
                            \/ worker'[q] = worker[q] /\ (Of(q) = j => Sure(q)')
  PROVE  AllTidy' /\ AllSure'
<1>1. ASSUME NEW k \in Jobs, k # j PROVE Tidy(k)'
  BY <1>1, AsideTidy DEF AllTidy
<1>2. ASSUME NEW q \in Workers PROVE Sure(q)'
  BY AsideSure, RestSure DEF AllSure
<1> QED
  BY <1>1, <1>2 DEF AllTidy, AllSure

\* A step that changes no row, no label and no request, and starts no server.
LEMMA BystanderTidy ==
  ASSUME SwapInv, AllTidy, AllSure, UNCHANGED <<job, label, inflight, vps>>,
         node'.name = node.name, \A s \in Servers : cloud'[s] = "live" => cloud[s] = "live",
         \A q \in Workers : worker'[q].pc \in {"idle", "loop"} \/ worker'[q] = worker[q]
  PROVE  AllTidy' /\ AllSure'
<1>1. ASSUME NEW j \in Jobs PROVE Tidy(j)'
  BY RowTidy DEF AllTidy
<1>2. ASSUME NEW q \in Workers PROVE Sure(q)'
  <2>1. CASE worker'[q].pc \in {"idle", "loop"}
    BY <2>1, RestSure
  <2>2. CASE worker'[q] = worker[q] /\ At(q, "idle")
    BY <2>2, RestSure DEF At
  <2>3. CASE worker'[q] = worker[q] /\ ~At(q, "idle")
    <3>1. PICK k, r, s : /\ k \in Jobs /\ k = Of(q) /\ r = JobOf(q) /\ r = job[k]
                         /\ s = worker[q].srv /\ (r.new \in Servers \/ r.new = None)
                         /\ Sure(q) /\ Known(q)
      BY <2>3, Busy
    <3>2. Of(q)' = k /\ JobOf(q)' = r /\ NameOf(k)' = NameOf(k)
      BY <2>3, <3>1 DEF Of, JobOf, NameOf
    <3>3. /\ Only(k, s) => Only(k, s)'
          /\ NoPending(k) => NoPending(k)'
          /\ Candidates(NameOf(k)) = {} => Candidates(NameOf(k))' = {}
      BY <3>2 DEF Only, Bought, NoPending, Candidates
    <3>4. worker'[q].srv = s /\ (worker[q].pc = "record" => Only(k, worker[q].srv)')
      BY <2>3, <3>1, <3>3 DEF Sure, Only
    <3> QED
      BY <2>3, <3>1, <3>2, <3>3, <3>4 DEF Sure
  <2> QED
    BY <2>1, <2>2, <2>3
<1> QED
  BY <1>1, <1>2 DEF AllTidy, AllSure

\* An execution dies; its create request may have been sent.
LEMMA CrashTidy ==
  ASSUME SwapInv, AllTidy, AllSure, NEW p \in Workers, Crash(p)
  PROVE  AllTidy' /\ AllSure'
<1>1. /\ ~At(p, "idle") /\ IndTypeOK /\ worker \in [Workers -> Execution]
      /\ UNCHANGED <<job, dep, node, vps, cloud, label>>
  BY Typed DEF Crash, registry, SwapInv
<1>2. /\ worker'[p].pc = "idle"
      /\ \A q \in Workers \ {p} : worker'[q] = worker[q]
  BY <1>1 DEF Crash, Asleep
<1>3. CASE UNCHANGED inflight
  BY <1>1, <1>2, <1>3, BystanderTidy
<1>4. CASE At(p, "create") /\ inflight' = inflight \cup {worker[p].name}
  <2>1. PICK j \in Jobs : j = Of(p)
    BY <1>1, Busy
  <2>2. /\ worker[p].name = NameOf(j) /\ Candidates(NameOf(j)) = {}
        /\ job[j].new = None /\ job[j].requested /\ Tidy(j)
        /\ job[j].cp \in {"provisioning", "failed", "cancelled"} /\ NameOf(j)[2] = j
    BY <1>1, <1>4, <2>1, AtCreate, NameTyped
  <2>3. Tidy(j)'
    BY <1>1, <1>4, <2>2, RequestTidy
  <2>4. Aside(j)
    BY <1>1, <1>4, <2>2 DEF Aside
  <2>5. ASSUME NEW q \in Workers, q # p
        PROVE  worker'[q].pc = "idle" \/ (worker'[q] = worker[q] /\ Of(q) # j)
    BY <1>1, <1>2, <2>1, <2>5, HoldersDiffer DEF SwapInv, LeaseMutex, Of, At
  <2> QED
    BY <1>2, <2>3, <2>4, <2>5, OutsideSingle
<1> QED
  BY <1>3, <1>4 DEF Crash

\* The provider serves a request whose client is gone, or drops it.
LEMMA SettleTidy ==
  ASSUME SwapInv, AllTidy, AllSure, NEW n \in inflight, Settle(n)
  PROVE  AllTidy' /\ AllSure'
<1>1. /\ IndTypeOK /\ inflight \subseteq Names
      /\ UNCHANGED <<job, dep, node, vps, worker>> /\ inflight' = inflight \ {n}
  BY DEF Settle, registry, SwapInv, IndTypeOK, TypeOK, OutsideTyped
<1>2. PICK j \in Jobs : j = n[2] /\ n # None
  BY <1>1, NamesOwned
<1>3. /\ Tidy(j) /\ n = NameOf(j) /\ Candidates(NameOf(j)) = {} /\ job[j].requested
      /\ job[j].new = None /\ job[j].cp \in {"provisioning", "failed", "cancelled"}
      /\ \A m \in inflight : m[2] = j => m = n
  BY <1>2 DEF AllTidy, Tidy
<1>4. NoPending(j)' /\ ~NoPending(j)
  BY <1>1, <1>2, <1>3 DEF NoPending
<1>5. Tidy(j)' /\ Aside(j)
  <2>1. ASSUME NEW s \in Fresh, Creates(s, n) PROVE Tidy(j)' /\ Aside(j)
    <3>1. Tidy(j)'
      BY <1>1, <1>3, <1>4, <2>1, FirstServerTidy
    <3>2. /\ s \in Servers /\ cloud[s] = "absent" /\ label[s] = None
          /\ cloud' = [cloud EXCEPT ![s] = "live"]
          /\ label' = [label EXCEPT ![s] = n]
          /\ cloud \in [Servers -> {"absent", "live", "deleted", "lost"}]
          /\ label \in [Servers -> Names \cup {None}]
      BY <1>1, <2>1, Typed DEF Fresh, SwapInv, World, Creates
    <3>3. Aside(j)
      BY <1>1, <1>2, <3>2 DEF Aside
    <3> QED
      BY <3>1, <3>3
  <2>2. CASE UNCHANGED <<cloud, label>>
    <3>1. Tidy(j)'
      BY <1>1, <1>3, <2>2, RequestTidy
    <3> QED
      BY <1>1, <2>2, <3>1 DEF Aside
  <2> QED
    BY <2>1, <2>2 DEF Settle
<1>6. ASSUME NEW q \in Workers, Of(q) = j PROVE Sure(q)'
  <2>1. worker[q].pc \in {"idle", "loop", "release", "fail", "provisioning", "find"} /\ Sure(q)
    BY <1>4, <1>6 DEF AllSure, Sure
  <2>2. Of(q)' = Of(q) /\ JobOf(q)' = JobOf(q) /\ NameOf(Of(q))' = NameOf(Of(q))
    BY <1>1 DEF Of, JobOf, NameOf
  <2> QED
    BY <1>1, <2>1, <2>2 DEF Sure
<1> QED
  BY <1>1, <1>5, <1>6, OutsideSingle

\* The operator's commands on a job.
LEMMA CommandsTidy ==
  ASSUME SwapInv, AllTidy, AllSure, NEW j \in Jobs,
         \/ \E s \in Servers, f \in BOOLEAN : Trigger(j, s, f)
         \/ Cancel(j)
  PROVE  AllTidy' /\ AllSure'
<1>1. /\ IndTypeOK /\ job \in [Jobs -> JobRow] /\ Tidy(j)
      /\ node \in [state : NodeState, host : Servers, name : 0..MaxFaults]
  BY Typed DEF SwapInv, AllTidy
<1>2. PICK r \in JobRow, q \in {job'[j]} : r = job[j] /\ q = job'[j]
  BY <1>1
<1>3. /\ UNCHANGED <<vps, cloud, label, inflight, worker>> /\ node'.name = node.name
      /\ \E v : job' = [job EXCEPT ![j] = v]
  BY <1>1 DEF Trigger, Cancel, outside
<1>4. Aside(j)
  BY <1>1, <1>3 DEF Aside
<1>5. ASSUME NEW s \in Servers, NEW f \in BOOLEAN, Trigger(j, s, f)
      PROVE  AllTidy' /\ AllSure'
  <2>1. r.cp = "none" /\ q.cp = "created" /\ q.new = None
    BY <1>1, <1>2, <1>5 DEF Trigger, NoJob
  <2>2. NoPending(j) /\ \A t \in Servers : ~Bought(t, j)
    BY <1>1, <1>2, <2>1 DEF Tidy, NoPending
  <2>3. NoPending(j)' /\ \A t \in Servers : ~Bought(t, j)'
    BY <1>3, <2>2 DEF NoPending, Bought
  <2>4. Tidy(j)'
    BY <1>2, <2>1, <2>3 DEF Tidy, NoPending
  <2>5. ASSUME NEW p \in Workers, Of(p) = j PROVE Sure(p)'
    <3>1. worker'[p].pc = "idle"
      BY <1>1, <1>2, <1>3, <2>1, <2>5 DEF IndTypeOK, Begun, Of
    <3> QED
      BY <3>1, RestSure
  <2> QED
    BY <1>3, <1>4, <2>4, <2>5, OutsideSingle
<1>6. CASE Cancel(j)
  <2>1. /\ q.cp = "cancelled" /\ q.new = r.new /\ q.attempt = r.attempt
        /\ q.requested = r.requested
    <3>1. q = Moved(r, "cancelled")
      BY <1>1, <1>2, <1>6 DEF Cancel
    <3> QED
      BY <3>1 DEF Moved, JobRow
  <2>2. Tidy(j)'
    BY <1>1, <1>2, <1>3, <2>1, RowTidy
  <2>3. ASSUME NEW p \in Workers, Of(p) = j PROVE Sure(p)'
    <3>1. /\ Sure(p) /\ Of(p)' = j /\ JobOf(p)' = q /\ JobOf(p) = r /\ NameOf(j)' = NameOf(j)
      BY <1>2, <1>3, <2>1, <2>3 DEF AllSure, Of, JobOf, NameOf
    <3>2. PICK w : w = worker[p] /\ worker'[p] = w
      BY <1>3
    <3>3. /\ Candidates(NameOf(j))' = Candidates(NameOf(j)) /\ NoPending(j)' = NoPending(j)
          /\ Only(j, w.srv)' = Only(j, w.srv)
      BY <1>3, <3>1 DEF Candidates, NoPending, Only, Bought
    <3>4. Only(j, worker[p].srv)' = Only(j, worker[p].srv)
      BY <3>2, <3>3 DEF Only
    <3> QED
      BY <1>3, <2>1, <2>3, <3>1, <3>2, <3>3, <3>4 DEF Sure
  <2> QED
    BY <1>3, <1>4, <2>2, <2>3, OutsideSingle
<1> QED
  BY <1>5, <1>6

\* Every step but a rename keeps every job tidy.
LEMMA NextTidy ==
  ASSUME SwapInv, AllTidy, AllSure, [Next]_vars, "rename" \notin Faults
  PROVE  AllTidy' /\ AllSure'
<1>1. /\ node \in [state : NodeState, host : Servers, name : 0..MaxFaults]
      /\ worker \in [Workers -> Execution]
      /\ cloud \in [Servers -> {"absent", "live", "deleted", "lost"}]
  BY Typed DEF SwapInv
<1>2. ASSUME NEW p \in Workers, NEW j \in Jobs, Acquire(p, j) PROVE AllTidy' /\ AllSure'
  <2>1. /\ UNCHANGED <<job, label, inflight, vps, node, cloud>> /\ worker'[p].pc = "loop"
        /\ \A q \in Workers \ {p} : worker'[q] = worker[q]
    BY <1>1, <1>2 DEF Acquire, registry, outside, Asleep
  <2> QED
    BY <2>1, BystanderTidy
<1>3. CASE CheckDisable \/ CommitDisable \/ Enable
  <2>1. UNCHANGED <<job, label, inflight, vps, cloud, worker>> /\ node'.name = node.name
    BY <1>1, <1>3 DEF CheckDisable, CommitDisable, Enable, registry, outside
  <2> QED
    BY <2>1, BystanderTidy
<1>4. CASE Rename
  BY <1>4 DEF Rename, Misfortune
<1>5. CASE Environment
  <2>1. ASSUME NEW p \in Workers, Lapse(p) PROVE AllTidy' /\ AllSure'
    BY <2>1, BystanderTidy DEF Lapse, registry, outside
  <2>2. ASSUME NEW j \in Jobs, Expire(j) PROVE AllTidy' /\ AllSure'
    BY <2>2, BystanderTidy DEF Expire, registry, outside
  <2>3. ASSUME NEW s \in Servers, LoseServer(s) PROVE AllTidy' /\ AllSure'
    <3>1. /\ UNCHANGED <<job, label, inflight, vps, node, worker>>
          /\ \A t \in Servers : cloud'[t] = "live" => cloud[t] = "live"
      BY <1>1, <2>3 DEF LoseServer, registry
    <3> QED
      BY <3>1, BystanderTidy
  <2>4. ASSUME NEW t \in Monitored, MonitorNode(t) PROVE AllTidy' /\ AllSure'
    <3>1. UNCHANGED <<job, label, inflight, vps, cloud, worker>> /\ node'.name = node.name
      BY <1>1, <2>4 DEF MonitorNode, outside
    <3> QED
      BY <3>1, BystanderTidy
  <2> QED
    BY <1>5, <2>1, <2>2, <2>3, <2>4, CrashTidy, SettleTidy DEF Environment
<1>6. CASE UNCHANGED vars
  BY <1>6, BystanderTidy DEF vars
<1> QED
  BY <1>2, <1>3, <1>4, <1>5, <1>6, StepTidy, CommandsTidy DEF Next, Operator

\* However often a create request is lost, repeated, served late or resumed by
\* another execution, and whenever the operator cancels, a job never has two
\* running servers besides the one in service (OneTemporaryPerJob).  Renaming
\* the node changes the name the lookup goes by, so it is left out here.
THEOREM SingleTemporary ==
  ASSUME "lapse" \notin Faults, "rename" \notin Faults
  PROVE  Spec => []OneTemporaryPerJob
<1>1. Init => AllTidy /\ AllSure
  <2> SUFFICES ASSUME Init PROVE AllTidy /\ AllSure
    OBVIOUS
  <2>1. \A s \in Servers : label[s] = None
    BY DEF Init
  <2>2. \A p \in Workers : worker[p].pc = "idle"
    BY DEF Init, Asleep
  <2> QED
    BY <2>1, <2>2 DEF Init, AllTidy, Tidy, AllSure, Sure, NoJob, Bought
<1>2. SwapInv /\ AllTidy /\ AllSure /\ [Next]_vars => AllTidy' /\ AllSure'
  BY NextTidy
<1>3. SwapInv /\ AllTidy => OneTemporaryPerJob
  <2> SUFFICES ASSUME SwapInv, AllTidy, NEW s \in Servers, NEW t \in Servers,
                      cloud[s] = "live", cloud[t] = "live",
                      label[s] # None, label[t] # None, label[s][2] = label[t][2]
               PROVE  s = t
    BY DEF OneTemporaryPerJob
  <2>1. label[s] \in Names
    BY Typed DEF SwapInv
  <2>2. PICK j \in Jobs : j = label[s][2]
    BY <2>1, NamesOwned
  <2> QED
    BY <2>2 DEF AllTidy, Tidy, Bought, Only
<1> QED
  BY <1>1, <1>2, <1>3, SwapInvariant, PTL DEF Spec

=============================================================================
