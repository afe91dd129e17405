----------------------------- MODULE SwapProofs -----------------------------
(****************************************************************************)
(* The safety of a replacement and its refinement of SafeSwap, for every    *)
(* number of jobs, executions, servers, attempts and faults, as long as no  *)
(* lease runs out under a live holder.                                      *)
(****************************************************************************)
EXTENDS SwapRefinement, ReplacementProofs

------------------------------------------------------------------------------
(* The inductive invariant.                                                 *)

Of(p) == worker[p].job

\* Server s was created for job j: it carries one of the job's names.
Bought(s, j) == label[s] # None /\ label[s][2] = j

\* Checkpoints before the address of the candidate is verified, those after
\* it, and those after its deployment is verified too.
Fetching ==
  {"none", "created", "provisioning", "provisioned", "checking_ip", "temp_cleanup"}
Switchable ==
  { "node_verified", "master_updating", "master_updated", "master_verifying",
    "master_verified", "final_check", "final_verified", "old_vps_cleanup" }
Checked == {"ip_verified", "deploying"} \cup Switchable

\* A server the Master may point at.
Evident(s) ==
  \/ s = 0
  \/ /\ <<"ip", s>> \in observed
     /\ \E j \in Jobs, a \in 0..MaxAttempts :
          dep[j][a] = [st |-> "succeeded", vps |-> s]

\* The registry, the provider and the Master: one server is in service, and it
\* belongs to no job that is not completed.
World ==
  /\ RegistryAgrees
  /\ \A s \in Servers : label[s] # None \/ vps[s] = "current" => cloud[s] # "absent"
  /\ \A s \in Servers, k \in Jobs :
       vps[s] = "current" /\ Bought(s, k) => job[k].cp = "completed"
  /\ Evident(master.addr)

\* At most one job has the active slot.
Exclusive == \A i, j \in Jobs : job[i].slot /\ job[j].slot => i = j

\* A job's row: each gate is set behind its evidence, and all the gates and the
\* deployment are about the server in new.
RowOK(j, r) ==
  /\ r.slot => r.cp \in Running /\ r.old = node.host
  /\ r.new # None => Bought(r.new, j)
  /\ r.slot /\ r.new # None /\ r.cp # "temp_cleanup" => cloud[r.new] # "deleted"
  /\ r.ipVerified => r.new # None /\ <<"ip", r.new>> \in observed
  /\ r.finalVerified => <<"final", r.new>> \in observed
  /\ \A a \in 0..MaxAttempts :
       dep[j][a] # NoDep => a = r.attempt /\ r.ipVerified /\ dep[j][a].vps = r.new
  /\ r.deployVerified => dep[j][r.attempt].st = "succeeded"
  /\ r.cp \in Fetching => ~r.ipVerified /\ ~r.finalVerified
  /\ r.cp \in Checked => r.ipVerified
  /\ r.cp \in Switchable => r.deployVerified
  /\ r.snap # None => Evident(r.snap)

\* The checkpoint of the stage an execution is in, unless the job was cancelled.
Placed(p) ==
  LET l == worker[p].pc  c == JobOf(p).cp IN
  c # "cancelled" =>
    /\ l \in Running => c = l
    /\ l \in {"find", "create", "record"} => c = "provisioning"
    /\ l \in {"ready", "gone", "running", "boot"} => c = "provisioned"
    /\ l \in {"rounds", "ip_ok", "ip_bad"} => c = "checking_ip"
    /\ l \in {"temp_delete", "temp_record"} => c = "temp_cleanup"
    /\ l \in {"deploy", "redeploy", "deploy_failed", "deploy_record"} => c = "deploying"
    /\ l \in {"master_get", "master_test"} => c = "node_verified"
    /\ l \in {"master_put", "master_record"} => c = "master_updating"
    /\ l \in {"master_verify", "verify_record"} => c = "master_verifying"
    /\ l \in {"final_probe", "final_record"} => c = "final_check"
    /\ l \in {"rollback", "rollback_verify"} => c \in {"master_verifying", "final_check"}
    /\ l \in {"old_delete", "finish"} => c = "old_vps_cleanup"
    /\ l \notin {"idle", "loop", "release"} => c \in Running

\* What an execution knows: its server is the one in its job's row, what it is
\* about to record did happen, what it is about to delete may be deleted.
Known(p) ==
  LET l == worker[p].pc  r == JobOf(p)  s == worker[p].srv IN
  /\ l \in {"find", "create"} => worker[p].name[2] = Of(p)
  /\ l = "record" => s \in Servers /\ Bought(s, Of(p)) /\ cloud[s] # "deleted"
  /\ l \in {"rounds", "temp_delete", "deploy", "redeploy", "master_put", "final_probe"}
       => s \in Servers /\ s = r.new
  /\ l \in {"temp_delete", "temp_record"} => ~r.ipVerified /\ ~r.finalVerified
  /\ l = "ip_ok" => r.new # None /\ <<"ip", r.new>> \in observed
  /\ l = "final_record" => <<"final", r.new>> \in observed
  /\ l \in {"master_put", "final_probe"} => r.deployVerified
  /\ l = "deploy" => DepOf(p).st = "pending"
  /\ l \in {"redeploy", "deploy_record"} => DepOf(p).st = "succeeded"
  /\ l \in {"old_delete", "finish"} => r.slot /\ GuardPasses(r, DepOf(p))
  /\ l = "old_delete" => s = r.old
  /\ l = "finish" => cloud[r.old] # "live"

Rows == \A j \in Jobs : RowOK(j, job[j])
Executions == \A p \in Workers : Placed(p) /\ Known(p)

SwapInv ==
  IndTypeOK /\ HoldsLease /\ World /\ Exclusive /\ Rows /\ Executions

\* A server of a job, typed.
LEMMA Typed ==
  ASSUME IndTypeOK
  PROVE  /\ job \in [Jobs -> JobRow] /\ worker \in [Workers -> Execution]
         /\ dep \in [Jobs -> [0..MaxAttempts -> Deployment]]
         /\ vps \in [Servers -> {"none", "current", "replacement", "deleted"}]
         /\ cloud \in [Servers -> {"absent", "live", "deleted", "lost"}]
         /\ label \in [Servers -> Names \cup {None}]
         /\ node \in [state : NodeState, host : Servers, name : 0..MaxFaults]
         /\ master \in [addr : Servers, token : Servers]
         /\ \A j \in Jobs : job[j].new \in Servers \cup {None}
                            /\ job[j].old \in Servers \cup {None}
                            /\ job[j].snap \in Servers \cup {None}
                            /\ job[j].attempt \in 0..MaxAttempts
         /\ \A p \in Workers : worker[p].pc # "idle" => worker[p].job \in Jobs
BY DEF IndTypeOK, TypeOK, JobsTyped, NodeTyped, OutsideTyped, WorkersTyped, JobRow,
   Execution, MaybeServer

\* No server is "no server".
LEMMA NoneNoServer == None \notin Servers
BY ReplacementAssumption DEF Servers

\* A name says whose it is.
LEMMA NamesOwned ==
  ASSUME NEW n \in Names
  PROVE  n[2] \in Jobs /\ n # None
BY ReplacementAssumption DEF Names

------------------------------------------------------------------------------
(* What a step of one execution leaves alone.                               *)

\* Evidence is never lost.
Kept ==
  /\ observed \subseteq observed'
  /\ \A k \in Jobs, a \in 0..MaxAttempts :
       dep[k][a].st = "succeeded" => dep'[k][a] = dep[k][a]

\* A step of p touches the rows of its own job, and of the servers only those
\* bought for that job and, at the end, the old one.
Frame(p) ==
  /\ \A q \in Workers \ {p} : worker'[q] = worker[q]
  /\ \A k \in Jobs \ {Of(p)} : job'[k] = job[k] /\ dep'[k] = dep[k]
  /\ Kept
  /\ \A s \in Servers : label[s] # None => label'[s] = label[s]
  /\ \A s \in Servers : cloud[s] # "absent" /\ cloud'[s] = "live" => cloud[s] = "live"
  /\ \A s \in Servers : cloud'[s] = "deleted" /\ cloud[s] # "deleted" =>
       s = worker[p].srv /\ worker[p].pc \in {"temp_delete", "old_delete"}
  /\ \A s \in Servers : vps'[s] # vps[s] =>
       \/ Bought(s, Of(p)) /\ job[Of(p)].cp # "completed"
       \/ worker[p].pc = "finish"
  /\ node'.host # node.host => worker[p].pc = "finish"

\* Server s will have its evidence in the next state.
EvidentThen(s) ==
  \/ s = 0
  \/ /\ <<"ip", s>> \in observed'
     /\ \E j \in Jobs, a \in 0..MaxAttempts :
          dep'[j][a] = [st |-> "succeeded", vps |-> s]

\* Evidence about a server is never lost.
LEMMA EvidentKept ==
  ASSUME Kept, NEW s, Evident(s)
  PROVE  Evident(s)'
BY DEF Kept, Evident

\* The rows of the other jobs are as good as before.
LEMMA OtherRows ==
  ASSUME SwapInv, NEW p \in Workers, ~At(p, "idle"), Frame(p), NEW k \in Jobs, k # Of(p)
  PROVE  RowOK(k, job[k])'
<1> DEFINE j == Of(p)
<1>1. /\ j \in Jobs /\ k \in Jobs \ {j}
      /\ job'[k] = job[k] /\ dep'[k] = dep[k]
      /\ Known(p) /\ RowOK(k, job[k]) /\ RowOK(j, job[j])
  BY Typed DEF SwapInv, At, Of, Frame, Rows, Executions
<1>2. /\ job[k].new \in Servers \cup {None} /\ job[k].snap \in Servers \cup {None}
      /\ None \notin Servers
  BY <1>1, Typed, NoneNoServer DEF SwapInv
<1>3. ASSUME worker[p].pc \in {"old_delete", "finish"}
      PROVE  ~job[k].slot
  BY <1>1, <1>3 DEF SwapInv, Known, Exclusive, JobOf, Of
<1>4. job[k].slot => job[k].cp \in Running /\ job[k].old = node'.host
  BY <1>1, <1>3 DEF RowOK, Frame
<1>5. job[k].new # None => Bought(job[k].new, k)'
  BY <1>1, <1>2 DEF RowOK, Frame, Bought
<1>6. job[k].slot /\ job[k].new # None /\ job[k].cp # "temp_cleanup"
        => cloud'[job[k].new] # "deleted"
  <2> SUFFICES ASSUME job[k].slot, job[k].new # None, job[k].cp # "temp_cleanup",
                      cloud'[job[k].new] = "deleted"
               PROVE  FALSE
    OBVIOUS
  <2>1. cloud[job[k].new] # "deleted" /\ Bought(job[k].new, k)
    BY <1>1 DEF RowOK
  <2>2. job[k].new = worker[p].srv /\ worker[p].pc = "temp_delete"
    BY <1>2, <1>3, <2>1 DEF Frame
  <2>3. Bought(worker[p].srv, j)
    BY <1>1, <1>2, <2>2 DEF Known, RowOK, JobOf, Of
  <2> QED
    BY <1>1, <2>1, <2>2, <2>3 DEF Bought
<1>7. job[k].snap # None => Evident(job[k].snap)'
  <2>1. job[k].snap # None => Evident(job[k].snap)
    BY <1>1 DEF RowOK
  <2> QED
    BY <1>1, <2>1 DEF Evident, Frame, Kept
<1>8. observed \subseteq observed'
  BY DEF Frame, Kept
<1> QED
  BY <1>1, <1>4, <1>5, <1>6, <1>7, <1>8 DEF RowOK

\* What a Bought server keeps.
LEMMA ForeignServer ==
  ASSUME SwapInv, NEW p \in Workers, ~At(p, "idle"), Frame(p), NEW k \in Jobs, k # Of(p),
         NEW s \in Servers, Bought(s, k)
  PROVE  /\ label'[s] = label[s]
         /\ worker[p].pc = "temp_delete" => s # worker[p].srv
         /\ worker[p].pc # "finish" => vps'[s] = vps[s]
<1>1. worker[p].pc = "temp_delete" => Bought(worker[p].srv, Of(p))
  <2>1. Known(p) /\ RowOK(Of(p), job[Of(p)]) /\ None \notin Servers
    BY Typed, NoneNoServer DEF SwapInv, At, Of, Rows, Executions
  <2> QED
    BY <2>1 DEF Known, RowOK, JobOf, Of
<1> QED
  BY <1>1 DEF Frame, Bought

\* The other executions still know what they knew.
LEMMA OtherExecutions ==
  ASSUME SwapInv, NEW p \in Workers, ~At(p, "idle"), Frame(p), NEW q \in Workers, q # p
  PROVE  Placed(q)' /\ Known(q)'
<1>1. CASE At(q, "idle")
  <2>1. worker'[q].pc = "idle"
    BY <1>1 DEF Frame, At
  <2> QED
    BY <2>1 DEF Placed, Known, Running
<1>2. CASE ~At(q, "idle")
  <2> DEFINE j == Of(p)
             k == Of(q)
             r == job[k]
             l == worker[q].pc
             s == worker[q].srv
  <2>1. /\ j \in Jobs /\ k \in Jobs \ {j}
        /\ Known(p) /\ RowOK(j, job[j]) /\ Known(q) /\ Placed(q) /\ RowOK(k, job[k])
    <3>1. LeaseMutex
      BY HoldersDiffer DEF SwapInv
    <3> QED
      BY <1>2, <3>1, Typed DEF SwapInv, At, Of, Rows, Executions, LeaseMutex
  <2>2. /\ worker'[q] = worker[q] /\ job'[k] = job[k] /\ dep'[k] = dep[k]
        /\ observed \subseteq observed'
    BY <2>1 DEF Frame, Kept
  <2>3. /\ r.new \in Servers \cup {None} /\ r.old \in Servers \cup {None}
        /\ None \notin Servers /\ cloud \in [Servers -> {"absent", "live", "deleted", "lost"}]
    BY <2>1, Typed, NoneNoServer DEF SwapInv
  <2>4. Placed(q)'
    BY <2>1, <2>2 DEF Placed, JobOf, Of
  <2>5. l = "record" => s \in Servers /\ Bought(s, k)' /\ cloud'[s] # "deleted"
    <3> SUFFICES ASSUME l = "record" PROVE s \in Servers /\ Bought(s, k)' /\ cloud'[s] # "deleted"
      OBVIOUS
    <3>1. s \in Servers /\ Bought(s, k) /\ cloud[s] # "deleted" /\ r.cp # "completed"
      BY <2>1 DEF Known, Placed, JobOf, Of
    <3>2. /\ label'[s] = label[s]
          /\ worker[p].pc = "temp_delete" => s # worker[p].srv
      BY <1>2, <2>1, <3>1, ForeignServer
    <3>3. worker[p].pc = "old_delete" => s # worker[p].srv
      <4>1. worker[p].pc = "old_delete" => vps[worker[p].srv] = "current"
        BY <2>1 DEF Known, GuardPasses, JobOf, Of
      <4> QED
        BY <2>1, <3>1, <4>1 DEF SwapInv, World
    <3> QED
      BY <2>2, <3>1, <3>2, <3>3 DEF Frame, Bought, Of
  <2>6. l \in {"old_delete", "finish"} =>
          /\ r.slot /\ GuardPasses(r, dep[k][r.attempt])'
          /\ l = "finish" => cloud'[r.old] # "live"
    <3> SUFFICES ASSUME l \in {"old_delete", "finish"}
                 PROVE  /\ r.slot /\ GuardPasses(r, dep[k][r.attempt])'
                        /\ l = "finish" => cloud'[r.old] # "live"
      OBVIOUS
    <3>1. /\ r.slot /\ GuardPasses(r, dep[k][r.attempt])
          /\ l = "finish" => cloud[r.old] # "live"
      BY <2>1 DEF Known, JobOf, DepOf, Of
    <3>2. r.old = node.host /\ node.host \in Servers /\ (r.new # None => Bought(r.new, k))
      BY <2>1, <3>1, Typed DEF RowOK, SwapInv
    <3>3. worker[p].pc # "finish"
      BY <2>1, <3>1 DEF SwapInv, Known, Exclusive, JobOf, Of
    <3>4. vps'[r.old] = "current"
      BY <2>1, <3>1, <3>2, <3>3, Typed DEF GuardPasses, Frame, SwapInv, World, RowOK
    <3>5. r.new \in Servers /\ vps'[r.new] = "replacement"
      <4>1. r.new \in Servers /\ vps[r.new] = "replacement"
        BY <2>1, <2>3, <3>1 DEF GuardPasses, RowOK
      <4> QED
        BY <1>2, <2>1, <2>3, <3>3, <4>1, ForeignServer DEF RowOK
    <3>6. l = "finish" => cloud'[r.old] # "live"
      BY <2>1, <2>3, <3>1, <3>2, Typed DEF Frame, GuardPasses, SwapInv, World, RowOK
    <3> QED
      BY <2>2, <3>1, <3>4, <3>5, <3>6 DEF GuardPasses, Of
  <2>7. /\ Of(q) = k /\ Of(q)' = k /\ JobOf(q) = r /\ JobOf(q)' = r
        /\ DepOf(q) = dep[k][r.attempt] /\ DepOf(q)' = dep[k][r.attempt]
    BY <2>2 DEF JobOf, DepOf, Of
  <2>8. Known(q)'
    <3>1. Known(q) /\ worker'[q] = worker[q] /\ observed \subseteq observed'
      BY <2>1, <2>2
    <3> QED
      BY <2>2, <2>5, <2>6, <2>7, <3>1, ZenonT(60) DEF Known
  <2> QED
    BY <2>4, <2>8
<1> QED
  BY <1>1, <1>2

\* A step within its frame leaves every row and every execution good, if it does
\* so for its own job and itself.
LEMMA FrameStep ==
  ASSUME SwapInv, NEW p \in Workers, ~At(p, "idle"), Frame(p),
         RowOK(Of(p), job[Of(p)])', job'[Of(p)].slot => job[Of(p)].slot,
         worker'[p].job = worker[p].job, Placed(p)', Known(p)'
  PROVE  Rows' /\ Executions' /\ Exclusive'
<1>1. Of(p) \in Jobs /\ Of(p)' = Of(p)
  BY Typed DEF SwapInv, At, Of
<1>2. Rows'
  <2>1. ASSUME NEW k \in Jobs, k # Of(p) PROVE RowOK(k, job[k])'
    BY <2>1, OtherRows
  <2>2. ASSUME NEW k \in Jobs, k = Of(p) PROVE RowOK(k, job[k])'
    <3>1. k = Of(p)'
      BY <1>1, <2>2
    <3> QED
      BY <3>1 DEF RowOK
  <2> QED
    BY <2>1, <2>2 DEF Rows
<1>3. Executions'
  <2>1. ASSUME NEW q \in Workers, q # p PROVE Placed(q)' /\ Known(q)'
    BY <2>1, OtherExecutions
  <2> QED
    BY <2>1 DEF Executions
<1>4. Exclusive'
  BY <1>1 DEF SwapInv, Exclusive, Frame
<1> QED
  BY <1>2, <1>3, <1>4

------------------------------------------------------------------------------
(* Steps that touch no server and not the Master.                           *)

\* What a step has to preserve beside the types and the leases.
Safe == World /\ Exclusive /\ Rows /\ Executions

\* Only executions, the row and the deployments of p's job change, and the
\* evidence grows.
Calm(p) ==
  /\ \A q \in Workers \ {p} : worker'[q] = worker[q]
  /\ \A k \in Jobs \ {Of(p)} : job'[k] = job[k] /\ dep'[k] = dep[k]
  /\ Kept
  /\ UNCHANGED <<cloud, label, vps, master>> /\ node'.host = node.host
  /\ job[Of(p)].cp = "completed" => job'[Of(p)].cp = "completed"
  /\ job'[Of(p)].slot => job[Of(p)].slot

\* A calm step preserves the invariant if it does so for its own job and itself.
LEMMA CalmStep ==
  ASSUME SwapInv, NEW p \in Workers, ~At(p, "idle"), Calm(p),
         RowOK(Of(p), job[Of(p)])', worker'[p].job = worker[p].job, Placed(p)', Known(p)'
  PROVE  Safe'
<1>1. Rows' /\ Executions' /\ Exclusive'
  BY FrameStep DEF Calm, Frame
<1>2. World'
  <2>1. RegistryAgrees'
    BY DEF SwapInv, World, RegistryAgrees, Calm
  <2>2. \A s \in Servers : label'[s] # None \/ vps'[s] = "current" => cloud'[s] # "absent"
    BY DEF SwapInv, World, Calm
  <2>3. \A s \in Servers, k \in Jobs :
          vps'[s] = "current" /\ Bought(s, k)' => job'[k].cp = "completed"
    BY DEF SwapInv, World, Calm, Bought
  <2>4. Evident(master.addr)'
    BY DEF SwapInv, World, Calm, Kept, Evident
  <2> QED
    BY <2>1, <2>2, <2>3, <2>4 DEF World
<1> QED
  BY <1>1, <1>2 DEF Safe

\* Where a step takes its execution.
StepTo(p, l, s) ==
  /\ worker'[p].pc = l /\ worker'[p].job = worker[p].job
  /\ worker'[p].srv = s /\ worker'[p].name = worker[p].name
  /\ \A q \in Workers \ {p} : worker'[q] = worker[q]

\* Goto and GotoWith, field by field.
LEMMA GotoSteps ==
  ASSUME IndTypeOK, NEW p \in Workers, NEW l, NEW s
  PROVE  /\ Goto(p, l) => StepTo(p, l, worker[p].srv)
         /\ GotoWith(p, l, s) => StepTo(p, l, s)
<1>1. worker \in [Workers -> Execution]
  BY Typed
<1>2. Goto(p, l) => StepTo(p, l, worker[p].srv)
  BY <1>1 DEF Goto, StepTo, Execution
<1>3. GotoWith(p, l, s) => StepTo(p, l, s)
  BY <1>1 DEF GotoWith, StepTo, Execution
<1> QED
  BY <1>2, <1>3

\* No row changes.
Quiet ==
  UNCHANGED <<job, dep, node, vps, cloud, label, master>> /\ observed \subseteq observed'

\* A quiet step preserves the invariant if it does so for the execution.
LEMMA QuietKeeps ==
  ASSUME SwapInv, NEW p \in Workers, ~At(p, "idle"), Quiet,
         worker'[p].job = worker[p].job, \A q \in Workers \ {p} : worker'[q] = worker[q],
         Placed(p)', Known(p)'
  PROVE  Safe'
<1>1. Calm(p)
  BY DEF Quiet, Calm, Kept
<1>2. Of(p) \in Jobs
  BY Typed DEF SwapInv, At, Of
<1>3. RowOK(Of(p), job[Of(p)])
  BY <1>2 DEF SwapInv, Rows
<1>4. RowOK(Of(p), job[Of(p)])'
  BY <1>2, <1>3 DEF RowOK, Quiet, Bought, Evident, Of
<1> QED
  BY <1>1, <1>2, <1>4, CalmStep

\* An execution on its way out, or back to the loop, knows nothing.
LEMMA RestKnows ==
  ASSUME NEW p \in Workers, worker'[p].pc \in {"idle", "loop", "release"}
  PROVE  Placed(p)' /\ Known(p)'
BY DEF Placed, Known, Running

\* Nor does one that is about to fail its job, which is not over.
LEMMA FailKnows ==
  ASSUME SwapInv, NEW p \in Workers, worker[p].pc \notin {"idle", "loop", "release"},
         worker'[p].pc = "fail", worker'[p].job = worker[p].job,
         job'[Of(p)].cp \in {job[Of(p)].cp} \cup Running
  PROVE  Placed(p)' /\ Known(p)'
<1>1. Placed(p)
  BY DEF SwapInv, Executions
<1>2. JobOf(p).cp \in Running \cup {"cancelled"}
  BY <1>1 DEF Placed
<1>3. Placed(p)'
  BY <1>2 DEF Placed, JobOf, Of, Running
<1> QED
  BY <1>3 DEF Known

\* A transaction that renews the lease, or takes a job along an edge of the
\* checkpoint graph, is not that of a job that is over.
LEMMA CommitsRunning ==
  ASSUME SwapInv, NEW p \in Workers, worker[p].pc \notin {"idle", "loop", "release"},
         Commits(p),
         \/ worker[p].pc \in Renewing
         \/ \E t \in Checkpoint \ {"cancelled"} : <<worker[p].pc, t>> \in Target
  PROVE  JobOf(p).cp \in Running /\ JobOf(p).cp # "cancelled"
<1>1. JobOf(p).cp \in Running \cup {"cancelled"} /\ RowOK(Of(p), job[Of(p)])
  BY Typed DEF SwapInv, Executions, Placed, Rows, Of
<1>2. CASE worker[p].pc \in Renewing
  BY <1>1, <1>2 DEF Commits, Holdable, RowOK, JobOf, Of, Running
<1>3. CASE \E t \in Checkpoint \ {"cancelled"} : <<worker[p].pc, t>> \in Target
  <2>1. PICK t \in Checkpoint \ {"cancelled"} : <<worker[p].pc, t>> \in Target
    BY <1>3
  <2>2. CanTransition(JobOf(p).cp, t)
    BY <2>1 DEF Commits
  <2>3. ~CanTransition("cancelled", t)
    BY <2>1 DEF CanTransition, Forward, Running
  <2> QED
    BY <1>1, <2>2, <2>3 DEF Running
<1> QED
  BY <1>2, <1>3

\* A transaction that rewrites its job's row as it is changes nothing.
LEMMA SameTx ==
  ASSUME IndTypeOK, NEW p \in Workers, ~At(p, "idle"), Tx(p, JobOf(p))
  PROVE  job' = job /\ Commits(p)
BY Typed DEF Tx, JobOf, At

\* Stages that read their row and go on to an external call, or to the next.
LEMMA ReadingStages ==
  ASSUME SwapInv, NEW p \in Workers,
         \/ StageProvisioned(p) \/ RecordRunning(p) \/ StageCheckingIp(p)
         \/ ProbeRounds(p) \/ StageTempCleanup(p) \/ StageNodeVerified(p)
         \/ StageMasterUpdating(p) \/ StageMasterVerifying(p) \/ StageFinalCheck(p)
         \/ StageOldVpsCleanup(p)
  PROVE  Safe'
<1> DEFINE r == JobOf(p)
<1>1. /\ worker[p].pc \in Renewing /\ Tx(p, r)
      /\ UNCHANGED <<dep, node, vps, cloud, label, master>> /\ observed \subseteq observed'
  BY DEF StageProvisioned, RecordRunning, StageCheckingIp, ProbeRounds, StageTempCleanup,
     StageNodeVerified, StageMasterUpdating, StageMasterVerifying, StageFinalCheck,
     StageOldVpsCleanup, At, Renewing, outside
<1>2. ~At(p, "idle") /\ worker[p].pc \notin {"idle", "loop", "release"} /\ IndTypeOK
  BY <1>1 DEF At, Renewing, SwapInv
<1>3. Of(p) \in Jobs /\ RowOK(Of(p), job[Of(p)]) /\ Placed(p) /\ Known(p)
  BY <1>2, Typed DEF SwapInv, Rows, Executions, At, Of
<1>4. job' = job /\ Commits(p) /\ r.cp \in Running /\ r.cp # "cancelled" /\ r.slot
  BY <1>1, <1>2, SameTx, CommitsRunning DEF Commits, Holdable, JobOf
<1>5. Quiet
  BY <1>1, <1>4 DEF Quiet
<1>6. r.new \in Servers \cup {None} /\ None \notin Servers
  BY <1>2, <1>3, Typed, NoneNoServer DEF JobOf, Of
<1>7. ASSUME NEW l, NEW s, StepTo(p, l, s), Placed(p)', Known(p)' PROVE Safe'
  BY <1>2, <1>5, <1>7, QuietKeeps DEF StepTo
<1>8. \A l, s : /\ Goto(p, l) => StepTo(p, l, worker[p].srv)
                /\ GotoWith(p, l, s) => StepTo(p, l, s)
  BY <1>2, GotoSteps
<1>a. CASE StageProvisioned(p)
  <2>1. StepTo(p, "ready", r.new) /\ r.cp = "provisioned"
    BY <1>3, <1>4, <1>8, <1>a DEF StageProvisioned, Placed, Running, At
  <2> QED
    BY <1>7, <2>1, <1>4 DEF StepTo, Placed, Known, JobOf, Of, Running
<1>b. CASE RecordRunning(p)
  <2>1. StepTo(p, "boot", worker[p].srv) /\ r.cp = "provisioned"
    BY <1>3, <1>4, <1>8, <1>b DEF RecordRunning, Placed, Running, At
  <2> QED
    BY <1>7, <2>1, <1>4 DEF StepTo, Placed, Known, JobOf, Of, Running
<1>c. CASE StageCheckingIp(p)
  <2>1. StepTo(p, "rounds", r.new) /\ r.cp = "checking_ip" /\ r.new # None
    BY <1>3, <1>4, <1>8, <1>c DEF StageCheckingIp, Placed, Running, At, Commits, NeedsNew
  <2> QED
    BY <1>6, <1>7, <2>1, <1>4 DEF StepTo, Placed, Known, JobOf, Of, Running
<1>d. CASE ProbeRounds(p)
  <2>1. r.cp = "checking_ip" /\ worker[p].srv = r.new /\ r.new \in Servers
    BY <1>3, <1>4, <1>d DEF ProbeRounds, Placed, Known, At
  <2>2. CASE /\ StepTo(p, "ip_ok", worker[p].srv) /\ <<"ip", worker[p].srv>> \in observed'
    BY <1>6, <1>7, <2>1, <2>2, <1>4 DEF StepTo, Placed, Known, JobOf, Of, Running
  <2>3. CASE StepTo(p, "ip_bad", worker[p].srv)
    BY <1>7, <2>1, <2>3, <1>4 DEF StepTo, Placed, Known, JobOf, Of, Running
  <2> QED
    BY <1>8, <1>d, <2>2, <2>3 DEF ProbeRounds
<1>e. CASE StageTempCleanup(p)
  <2>1. r.cp = "temp_cleanup" /\ ~r.ipVerified /\ ~r.finalVerified
    BY <1>3, <1>4, <1>e DEF StageTempCleanup, Placed, RowOK, Running, Fetching, At, JobOf, Of
  <2>2. CASE r.new # None /\ StepTo(p, "temp_delete", r.new)
    BY <1>6, <1>7, <2>1, <2>2, <1>4 DEF StepTo, Placed, Known, JobOf, Of, Running
  <2>3. CASE StepTo(p, "temp_record", worker[p].srv)
    BY <1>7, <2>1, <2>3, <1>4 DEF StepTo, Placed, Known, JobOf, Of, Running
  <2> QED
    BY <1>8, <1>e, <2>2, <2>3 DEF StageTempCleanup
<1>f. CASE StageNodeVerified(p)
  <2>1. StepTo(p, "master_get", r.new) /\ r.cp = "node_verified"
    BY <1>3, <1>4, <1>8, <1>f DEF StageNodeVerified, Placed, Running, At
  <2> QED
    BY <1>7, <2>1, <1>4 DEF StepTo, Placed, Known, JobOf, Of, Running
<1>g. CASE StageMasterUpdating(p)
  <2>1. StepTo(p, "master_put", r.new) /\ r.cp = "master_updating" /\ r.new # None
    BY <1>3, <1>4, <1>8, <1>g DEF StageMasterUpdating, Placed, Running, At, Commits, NeedsNew
  <2>2. r.deployVerified
    BY <1>3, <2>1 DEF RowOK, Switchable, JobOf, Of
  <2> QED
    BY <1>6, <1>7, <2>1, <2>2, <1>4 DEF StepTo, Placed, Known, JobOf, Of, Running
<1>h. CASE StageMasterVerifying(p)
  <2>1. StepTo(p, "master_verify", r.new) /\ r.cp = "master_verifying"
    BY <1>3, <1>4, <1>8, <1>h DEF StageMasterVerifying, Placed, Running, At
  <2> QED
    BY <1>7, <2>1, <1>4 DEF StepTo, Placed, Known, JobOf, Of, Running
<1>i. CASE StageFinalCheck(p)
  <2>1. StepTo(p, "final_probe", r.new) /\ r.cp = "final_check" /\ r.new # None
    BY <1>3, <1>4, <1>8, <1>i DEF StageFinalCheck, Placed, Running, At, Commits, NeedsNew
  <2>2. r.deployVerified
    BY <1>3, <2>1 DEF RowOK, Switchable, JobOf, Of
  <2> QED
    BY <1>6, <1>7, <2>1, <2>2, <1>4 DEF StepTo, Placed, Known, JobOf, Of, Running
<1>j. CASE StageOldVpsCleanup(p)
  <2>1. StepTo(p, "old_delete", r.old) /\ r.cp = "old_vps_cleanup" /\ GuardPasses(r, DepOf(p))
    BY <1>3, <1>4, <1>8, <1>j DEF StageOldVpsCleanup, Placed, Running, At, Commits
  <2>2. GuardPasses(JobOf(p), DepOf(p))'
    BY <1>1, <1>4, <2>1 DEF StepTo, GuardPasses, JobOf, DepOf
  <2> QED
    BY <1>7, <2>1, <2>2, <1>4 DEF StepTo, Placed, Known, JobOf, Of, Running
<1> QED
  BY <1>a, <1>b, <1>c, <1>d, <1>e, <1>f, <1>g, <1>h, <1>i, <1>j

\* The steps of resume() that change no row.
LEMMA ResumeSteps ==
  ASSUME SwapInv, NEW p \in Workers, Dispatch(p) \/ Defer(p) \/ Break(p) \/ Refused(p)
  PROVE  Safe'
<1>1. IndTypeOK /\ ~At(p, "idle")
  BY DEF SwapInv, At, Dispatch, Defer, Deferrable, Break, Fallible, Refused, Transactions,
     Renewing, NeedsNew, NeedsSnap, Target
<1>2. Quiet
  BY DEF Quiet, Dispatch, Defer, Break, Refused, Raises, registry, outside, Misfortune
<1>3. CASE Dispatch(p)
  <2> DEFINE cp == JobOf(p).cp
  <2>1. /\ worker'[p].pc = IF cp \in Terminal THEN "release" ELSE cp
        /\ worker'[p].job = worker[p].job
        /\ \A q \in Workers \ {p} : worker'[q] = worker[q]
    BY <1>1, <1>3, Typed DEF Dispatch, Execution, Asleep
  <2>2. cp \in Terminal \cup Running
    BY <1>1, BusyRow DEF Checkpoint
  <2>3. Placed(p)' /\ Known(p)'
    <3>1. CASE cp \in Terminal
      BY <2>1, <3>1, RestKnows
    <3>2. CASE cp \notin Terminal
      <4>1. worker'[p].pc = cp /\ cp \in Running /\ JobOf(p)' = JobOf(p)
        BY <1>2, <2>1, <2>2, <3>2 DEF Quiet, JobOf
      <4> QED
        BY <4>1 DEF Placed, Known, Running
    <3> QED
      BY <3>1, <3>2
  <2> QED
    BY <1>1, <1>2, <2>1, <2>3, QuietKeeps
<1>4. CASE Defer(p) \/ Break(p) \/ Refused(p)
  <2>1. PICK l \in {"release", "fail"} : Goto(p, l)
    BY <1>4 DEF Defer, Break, Refused, Raises
  <2>2. StepTo(p, l, worker[p].srv)
    BY <1>1, <2>1, GotoSteps
  <2>3. CASE l = "release"
    BY <1>1, <1>2, <2>2, <2>3, RestKnows, QuietKeeps DEF StepTo
  <2>4. CASE l = "fail"
    <3>1. ~Defer(p)
      <4>1. Defer(p) => StepTo(p, "release", worker[p].srv)
        BY <1>1, GotoSteps DEF Defer
      <4> QED
        BY <2>2, <2>4, <4>1 DEF StepTo
    <3>2. worker[p].pc \notin {"idle", "loop", "release"}
      BY <1>4, <3>1 DEF Break, Fallible, Refused, Transactions, Renewing, NeedsNew,
         NeedsSnap, Target
    <3>3. Placed(p)' /\ Known(p)'
      BY <1>2, <2>2, <2>4, <3>2, FailKnows DEF StepTo, Quiet
    <3> QED
      BY <1>1, <1>2, <2>2, <3>3, QuietKeeps DEF StepTo
  <2> QED
    BY <2>3, <2>4
<1> QED
  BY <1>3, <1>4

\* External calls that change nothing: readiness, verification, the final check.
LEMMA CallingSteps ==
  ASSUME SwapInv, NEW p \in Workers,
         ServerReady(p) \/ Reverify(p) \/ VerifyMaster(p) \/ FinalProbe(p) \/ RollbackVerified(p)
  PROVE  Safe'
<1>1. IndTypeOK /\ worker[p].pc \notin {"idle", "loop", "release"} /\ ~At(p, "idle")
  BY DEF SwapInv, At, ServerReady, Reverify, VerifyMaster, FinalProbe, RollbackVerified
<1>2. Quiet
  BY DEF Quiet, ServerReady, Reverify, VerifyMaster, FinalProbe, RollbackVerified, registry,
     outside
<1>3. Placed(p) /\ Known(p) /\ job' = job /\ dep' = dep
  BY <1>2 DEF SwapInv, Executions, Quiet
<1>4. ASSUME NEW l, Goto(p, l), Placed(p)', Known(p)' PROVE Safe'
  BY <1>1, <1>2, <1>4, GotoSteps, QuietKeeps DEF StepTo
<1>5. ASSUME NEW l, Goto(p, l)
      PROVE  worker'[p].pc = l /\ worker'[p].job = worker[p].job /\ worker'[p].srv = worker[p].srv
  BY <1>1, <1>5, GotoSteps DEF StepTo
<1>6. CASE ServerReady(p)
  <2>1. PICK l \in {"running", "gone"} : At(p, "ready") /\ Goto(p, l)
    BY <1>6 DEF ServerReady
  <2>2. Placed(p)' /\ Known(p)'
    BY <1>3, <1>5, <2>1 DEF Placed, Known, JobOf, Of, At, Running
  <2> QED
    BY <1>4, <2>1, <2>2
<1>7. CASE Reverify(p)
  <2>1. At(p, "redeploy") /\ Goto(p, "deploy_record")
    BY <1>7 DEF Reverify
  <2>2. Placed(p)' /\ Known(p)'
    BY <1>3, <1>5, <2>1 DEF Placed, Known, JobOf, DepOf, Of, At, Running
  <2> QED
    BY <1>4, <2>1, <2>2
<1>8. CASE VerifyMaster(p)
  <2>1. PICK l \in {"verify_record", "rollback"} : At(p, "master_verify") /\ Goto(p, l)
    BY <1>8 DEF VerifyMaster
  <2>2. Placed(p)' /\ Known(p)'
    BY <1>3, <1>5, <2>1 DEF Placed, Known, JobOf, Of, At, Running
  <2> QED
    BY <1>4, <2>1, <2>2
<1>9. CASE FinalProbe(p)
  <2>1. PICK l \in {"final_record", "rollback"} :
          /\ At(p, "final_probe") /\ Goto(p, l)
          /\ l = "final_record" => <<"final", worker[p].srv>> \in observed'
    BY <1>9 DEF FinalProbe
  <2>2. Placed(p)' /\ Known(p)'
    BY <1>3, <1>5, <2>1 DEF Placed, Known, JobOf, Of, At, Running
  <2> QED
    BY <1>4, <2>1, <2>2
<1>10. CASE RollbackVerified(p)
  <2>1. Goto(p, "fail")
    BY <1>10 DEF RollbackVerified
  <2>2. Placed(p)' /\ Known(p)'
    BY <1>1, <1>3, <1>5, <2>1, FailKnows
  <2> QED
    BY <1>4, <2>1, <2>2
<1> QED
  BY <1>6, <1>7, <1>8, <1>9, <1>10

\* The deployment stage reads the rows it will work with.
LEMMA DeploymentStarts ==
  ASSUME SwapInv, NEW p \in Workers, StageDeploying(p)
  PROVE  Safe'
<1> DEFINE r == JobOf(p)
<1>1. /\ At(p, "deploying") /\ Tx(p, r) /\ worker[p].pc \in Renewing /\ IndTypeOK
      /\ ~At(p, "idle") /\ worker[p].pc \notin {"idle", "loop", "release"}
      /\ UNCHANGED <<dep, node, vps, cloud, label, master, observed>>
  BY DEF StageDeploying, At, Renewing, SwapInv, outside
<1>2. job' = job /\ Commits(p) /\ r.cp \in Running /\ r.cp # "cancelled"
  BY <1>1, SameTx, CommitsRunning
<1>3. Quiet
  BY <1>1, <1>2 DEF Quiet
<1>4. Placed(p) /\ Of(p) \in Jobs
  BY <1>1, Typed DEF SwapInv, Executions, At, Of
<1>5. r.cp = "deploying" /\ r.new \in Servers /\ r.new # None
  BY <1>1, <1>2, <1>4, Typed DEF Placed, Running, At, Commits, NeedsNew, JobOf, Of
<1>6. /\ worker'[p].pc = Resumed(DepOf(p).st) /\ worker'[p].srv = r.new
      /\ worker'[p].job = worker[p].job
      /\ \A q \in Workers \ {p} : worker'[q] = worker[q]
  BY <1>1, Typed DEF StageDeploying, Execution
<1>7. JobOf(p)' = r /\ DepOf(p)' = DepOf(p) /\ Of(p)' = Of(p)
  BY <1>1, <1>2, <1>6 DEF JobOf, DepOf, Of
<1>8. \/ Resumed(DepOf(p).st) = "deploy" /\ DepOf(p).st = "pending"
      \/ Resumed(DepOf(p).st) = "redeploy" /\ DepOf(p).st = "succeeded"
      \/ Resumed(DepOf(p).st) = "deploy_failed"
  BY DEF Resumed
<1>9. Placed(p)' /\ Known(p)'
  BY <1>5, <1>6, <1>7, <1>8 DEF Placed, Known, Running
<1> QED
  BY <1>1, <1>3, <1>6, <1>9, QuietKeeps

------------------------------------------------------------------------------
(* Steps that rewrite the row of their job.                                 *)

\* A new row preserves the invariant if it is a good one.
LEMMA RowKeeps ==
  ASSUME SwapInv, NEW p \in Workers, ~At(p, "idle"), NEW r,
         job' = [job EXCEPT ![worker[p].job] = r],
         UNCHANGED <<dep, vps, cloud, label, master, observed>>, node'.host = node.host,
         JobOf(p).cp # "completed", r.slot => JobOf(p).slot, RowOK(Of(p), r),
         worker'[p].job = worker[p].job, \A q \in Workers \ {p} : worker'[q] = worker[q],
         Placed(p)', Known(p)'
  PROVE  Safe'
<1>1. Of(p) \in Jobs /\ job \in [Jobs -> JobRow] /\ Of(p) = worker[p].job
  BY Typed DEF SwapInv, At, Of
<1>2. job'[Of(p)] = r /\ \A k \in Jobs \ {Of(p)} : job'[k] = job[k]
  BY <1>1
<1>3. Calm(p)
  BY <1>1, <1>2 DEF Calm, Kept, JobOf
<1>4. RowOK(Of(p), job[Of(p)])'
  <2>1. Of(p)' = Of(p) /\ job[Of(p)]' = r
    BY <1>2 DEF Of
  <2> QED
    BY <2>1 DEF RowOK, Bought, Evident
<1> QED
  BY <1>3, <1>4, CalmStep

\* Edges of the checkpoint graph on which a row needs no new evidence.
Routine ==
  { <<"created", "provisioning">>, <<"provisioning", "provisioned">>,
    <<"provisioned", "checking_ip">>, <<"provisioned", "temp_cleanup">>,
    <<"checking_ip", "temp_cleanup">>, <<"ip_verified", "deploying">>,
    <<"node_verified", "master_updating">>, <<"master_updating", "master_updated">>,
    <<"master_updated", "master_verifying">>, <<"master_verifying", "master_verified">>,
    <<"master_verified", "final_check">>, <<"final_check", "final_verified">>,
    <<"final_verified", "old_vps_cleanup">> }

\* Such a move leaves the row a good one.
LEMMA RoutineRow ==
  ASSUME NEW j \in Jobs, NEW q \in JobRow, NEW t, <<q.cp, t>> \in Routine, RowOK(j, q)
  PROVE  /\ RowOK(j, Moved(q, t)) /\ Moved(q, t).slot = q.slot /\ Moved(q, t).cp = t
         /\ Moved(q, t) \in JobRow
<1>1. t \in Running /\ t \notin Terminal /\ q.cp # "temp_cleanup"
  BY DEF Routine, Running, Terminal
<1>2. /\ Moved(q, t).cp = t /\ Moved(q, t).slot = q.slot /\ Moved(q, t).old = q.old
      /\ Moved(q, t).new = q.new /\ Moved(q, t).snap = q.snap
      /\ Moved(q, t).attempt = q.attempt /\ Moved(q, t).ipVerified = q.ipVerified
      /\ Moved(q, t).deployVerified = q.deployVerified
      /\ Moved(q, t).finalVerified = q.finalVerified
      /\ Moved(q, t) \in JobRow
  BY <1>1 DEF Moved, JobRow, Checkpoint
<1>3. /\ t \in Fetching => q.cp \in Fetching
      /\ t \in Checked => q.cp \in Checked
      /\ t \in Switchable => q.cp \in Switchable
  BY DEF Routine, Fetching, Checked, Switchable
<1> QED
  BY <1>1, <1>2, <1>3 DEF RowOK

\* A transaction that takes its job on to another checkpoint.
LEMMA MoveKeeps ==
  ASSUME SwapInv, NEW p \in Workers, ~At(p, "idle"), NEW r, NEW t \in Checkpoint,
         <<worker[p].pc, t>> \in Target, Tx(p, r), Goto(p, "loop"),
         UNCHANGED <<dep, vps, cloud, label, master, observed>>, node'.host = node.host,
         r.slot => JobOf(p).slot, RowOK(Of(p), r)
  PROVE  Safe'
<1>1. job' = [job EXCEPT ![worker[p].job] = r] /\ Commits(p)
  BY DEF Tx
<1>2. StepTo(p, "loop", worker[p].srv)
  BY GotoSteps DEF SwapInv
<1>3. JobOf(p).cp # "completed"
  <2>1. worker[p].pc \notin {"idle", "loop", "release"} /\ t # "cancelled"
    BY DEF Target
  <2> QED
    BY <1>1, <2>1, CommitsRunning DEF Running
<1>4. Placed(p)' /\ Known(p)'
  BY <1>2, RestKnows DEF StepTo
<1> QED
  BY <1>1, <1>2, <1>3, <1>4, RowKeeps DEF StepTo

\* The checkpoint of a job whose transaction goes along an edge.
LEMMA MovesFrom ==
  ASSUME SwapInv, NEW p \in Workers, ~At(p, "idle"), NEW t \in Checkpoint,
         <<worker[p].pc, t>> \in Target, Commits(p)
  PROVE  /\ JobOf(p) \in JobRow /\ RowOK(Of(p), JobOf(p)) /\ Of(p) \in Jobs
         /\ Placed(p) /\ Known(p) /\ JobOf(p).cp \in Running /\ JobOf(p).cp # "cancelled"
<1>1. worker[p].pc \notin {"idle", "loop", "release"} /\ t # "cancelled"
  BY DEF Target
<1> QED
  BY <1>1, CommitsRunning, Typed DEF SwapInv, Rows, Executions, JobOf, Of, At

\* Transactions that only move the checkpoint.
LEMMA MovingStages ==
  ASSUME SwapInv, NEW p \in Workers,
         \/ BootGrace(p) \/ RejectIp(p) \/ TestMaster(p) \/ StageMasterUpdated(p)
         \/ StageMasterVerified(p) \/ StageFinalVerified(p)
  PROVE  Safe'
<1>1. PICK t \in Running :
        /\ <<worker[p].pc, t>> \in
             { <<"boot", "checking_ip">>, <<"ip_bad", "temp_cleanup">>,
               <<"master_test", "master_updating">>,
               <<"master_updated", "master_verifying">>,
               <<"master_verified", "final_check">>,
               <<"final_verified", "old_vps_cleanup">> }
        /\ Tx(p, Moved(JobOf(p), t)) /\ Goto(p, "loop")
  BY DEF BootGrace, RejectIp, TestMaster, StageMasterUpdated, StageMasterVerified,
     StageFinalVerified, At, Running
<1>2. UNCHANGED <<dep, vps, cloud, label, master, observed, node>>
  BY DEF BootGrace, RejectIp, TestMaster, StageMasterUpdated, StageMasterVerified,
     StageFinalVerified, outside
<1>3. ~At(p, "idle") /\ <<worker[p].pc, t>> \in Target /\ Commits(p) /\ t \in Checkpoint
  BY <1>1 DEF At, Target, Tx, Checkpoint
<1>4. /\ JobOf(p) \in JobRow /\ RowOK(Of(p), JobOf(p)) /\ Of(p) \in Jobs
      /\ Placed(p) /\ JobOf(p).cp # "cancelled"
  BY <1>3, MovesFrom
<1>5. <<JobOf(p).cp, t>> \in Routine
  BY <1>1, <1>4 DEF Placed, Routine, Running
<1> QED
  BY <1>1, <1>2, <1>3, <1>4, <1>5, RoutineRow, MoveKeeps

\* Transactions that set a gate as well.
LEMMA GateStages ==
  ASSUME SwapInv, NEW p \in Workers,
         PassIp(p) \/ RecordMasterUpdate(p) \/ RecordMasterVerified(p) \/ RecordFinal(p)
  PROVE  Safe'
<1> DEFINE r == JobOf(p)
<1>1. PICK t \in Running :
        /\ <<worker[p].pc, t>> \in
             { <<"ip_ok", "ip_verified">>, <<"master_record", "master_updated">>,
               <<"verify_record", "master_verified">>,
               <<"final_record", "final_verified">> }
        /\ Commits(p)
  BY DEF PassIp, RecordMasterUpdate, RecordMasterVerified, RecordFinal, At, Running, Tx
<1>2. /\ Goto(p, "loop")
      /\ UNCHANGED <<dep, vps, cloud, label, master, observed, node>>
  BY DEF PassIp, RecordMasterUpdate, RecordMasterVerified, RecordFinal, outside
<1>3. ~At(p, "idle") /\ <<worker[p].pc, t>> \in Target /\ t \in Checkpoint
  BY <1>1 DEF At, Target, Tx, Checkpoint
<1>4. /\ r \in JobRow /\ RowOK(Of(p), r) /\ Of(p) \in Jobs
      /\ Placed(p) /\ Known(p) /\ r.cp # "cancelled"
  BY <1>1, <1>3, MovesFrom
<1>5. ASSUME NEW q, Tx(p, q), q.slot => r.slot, RowOK(Of(p), q) PROVE Safe'
  BY <1>2, <1>3, <1>5, MoveKeeps
<1>6. CASE PassIp(p)
  <2> DEFINE q == [Moved(r, "ip_verified") EXCEPT !.ipVerified = TRUE]
  <2>1. Tx(p, q) /\ At(p, "ip_ok")
    BY <1>6 DEF PassIp
  <2>2. r.cp = "checking_ip" /\ r.new # None /\ <<"ip", r.new>> \in observed
    BY <1>4, <2>1 DEF Placed, Known, At, JobOf
  <2>3. /\ q.cp = "ip_verified" /\ q.slot = r.slot /\ q.old = r.old /\ q.new = r.new
        /\ q.snap = r.snap /\ q.attempt = r.attempt /\ q.ipVerified
        /\ q.deployVerified = r.deployVerified /\ q.finalVerified = r.finalVerified
    BY <1>4 DEF Moved, JobRow, Terminal
  <2>4. RowOK(Of(p), q)
    BY <1>4, <2>2, <2>3 DEF RowOK, Running, Fetching, Checked, Switchable
  <2> HIDE DEF q
  <2> QED
    BY <1>5, <2>1, <2>3, <2>4
<1>7. CASE RecordMasterUpdate(p)
  <2> DEFINE m == Moved(r, "master_updated")
             q == [m EXCEPT !.masterUpdated = TRUE]
  <2>1. Tx(p, q) /\ At(p, "master_record")
    BY <1>7 DEF RecordMasterUpdate
  <2>2. <<r.cp, "master_updated">> \in Routine
    BY <1>4, <2>1 DEF Placed, At, Routine
  <2>3. RowOK(Of(p), m) /\ m.slot = r.slot /\ m \in JobRow
    BY <1>4, <2>2, RoutineRow
  <2> HIDE DEF m
  <2>4. RowOK(Of(p), q) /\ q.slot = r.slot
    BY <2>3 DEF RowOK, JobRow
  <2> HIDE DEF q
  <2> QED
    BY <1>5, <2>1, <2>4
<1>8. CASE RecordMasterVerified(p)
  <2> DEFINE m == Moved(r, "master_verified")
             q == [m EXCEPT !.masterVerified = TRUE]
  <2>1. Tx(p, q) /\ At(p, "verify_record")
    BY <1>8 DEF RecordMasterVerified
  <2>2. <<r.cp, "master_verified">> \in Routine
    BY <1>4, <2>1 DEF Placed, At, Routine
  <2>3. RowOK(Of(p), m) /\ m.slot = r.slot /\ m \in JobRow
    BY <1>4, <2>2, RoutineRow
  <2> HIDE DEF m
  <2>4. RowOK(Of(p), q) /\ q.slot = r.slot
    BY <2>3 DEF RowOK, JobRow
  <2> HIDE DEF q
  <2> QED
    BY <1>5, <2>1, <2>4
<1>9. CASE RecordFinal(p)
  <2> DEFINE m == Moved(r, "final_verified")
             q == [m EXCEPT !.finalVerified = TRUE]
  <2>1. Tx(p, q) /\ At(p, "final_record")
    BY <1>9 DEF RecordFinal
  <2>2. <<r.cp, "final_verified">> \in Routine /\ <<"final", r.new>> \in observed
    BY <1>4, <2>1 DEF Placed, Known, At, Routine, JobOf
  <2>3. /\ RowOK(Of(p), m) /\ m.slot = r.slot /\ m \in JobRow
        /\ m.cp = "final_verified"
    BY <1>4, <2>2, RoutineRow
  <2>4. m.new = r.new
    BY <1>4 DEF Moved, JobRow
  <2> HIDE DEF m
  <2>5. RowOK(Of(p), q) /\ q.slot = r.slot
    BY <2>2, <2>3, <2>4 DEF RowOK, JobRow, Fetching
  <2> HIDE DEF q
  <2> QED
    BY <1>5, <2>1, <2>5
<1> QED
  BY <1>6, <1>7, <1>8, <1>9

\* The first attempt begins, and a candidate that is already known is taken up.
LEMMA FirstStages ==
  ASSUME SwapInv, NEW p \in Workers, StageCreated(p) \/ StageProvisioning(p)
  PROVE  Safe'
<1> DEFINE r == JobOf(p)
<1>1. ~At(p, "idle") /\ worker[p].pc \notin {"idle", "loop", "release"} /\ IndTypeOK
  BY DEF StageCreated, StageProvisioning, At, SwapInv
<1>2. /\ r \in JobRow /\ Of(p) \in Jobs /\ RowOK(Of(p), r) /\ Placed(p)
      /\ r.cp \in Running \cup {"cancelled"} /\ r.cp # "completed"
      /\ r = job[Of(p)] /\ Of(p) = worker[p].job
  BY <1>1, BusyRow DEF SwapInv, Rows, Executions, JobOf, Of, Placed, Running
<1>3. CASE StageCreated(p)
  <2> DEFINE m == Moved(r, "provisioning")
             q == [m EXCEPT !.attempt = IF @ < 1 THEN 1 ELSE @]
  <2>1. /\ At(p, "created") /\ Tx(p, q) /\ Goto(p, "loop") /\ Commits(p)
        /\ UNCHANGED <<dep, vps, cloud, label, master, observed, node>>
    BY <1>3 DEF StageCreated, outside, Tx
  <2>2. <<worker[p].pc, "provisioning">> \in Target /\ "provisioning" \in Checkpoint
    BY <2>1 DEF At, Target, Checkpoint, Running
  <2>3. r.cp = "created"
    BY <1>1, <2>1, <2>2, MovesFrom DEF At, Placed, Running
  <2>4. RowOK(Of(p), m) /\ m.slot = r.slot /\ m \in JobRow /\ m.cp = "provisioning"
    BY <1>2, <2>3, RoutineRow DEF Routine
  <2> HIDE DEF m
  <2>5. \A a \in 0..MaxAttempts : dep[Of(p)][a] = NoDep
    BY <1>2, <2>3 DEF RowOK, Fetching
  <2>6. m.attempt \in 0..MaxAttempts /\ NoDep.st # "succeeded"
    BY <2>4 DEF JobRow, NoDep
  <2>7. ~m.deployVerified
    BY <2>4, <2>5, <2>6 DEF RowOK
  <2>8. RowOK(Of(p), q) /\ q.slot = r.slot
    BY <2>4, <2>5, <2>7 DEF RowOK, JobRow
  <2> HIDE DEF q
  <2> QED
    BY <1>1, <2>1, <2>2, <2>8, MoveKeeps
<1>4. CASE StageProvisioning(p)
  <2>1. At(p, "provisioning") /\ UNCHANGED <<dep, node, vps, cloud, label, master, observed>>
    BY <1>4 DEF StageProvisioning, outside
  <2>2. CASE /\ CanTransition(r.cp, "provisioned") /\ Goto(p, "loop")
             /\ job' = [job EXCEPT ![worker[p].job] = Moved(r, "provisioned")]
    <3>1. <<r.cp, "provisioned">> \in Routine
      BY <1>2, <2>1, <2>2 DEF Placed, At, CanTransition, Forward, Routine, Running
    <3>2. RowOK(Of(p), Moved(r, "provisioned")) /\ Moved(r, "provisioned").slot = r.slot
      BY <1>2, <3>1, RoutineRow
    <3>3. StepTo(p, "loop", worker[p].srv)
      BY <1>1, <2>2, GotoSteps
    <3>4. Placed(p)' /\ Known(p)'
      BY <3>3, RestKnows DEF StepTo
    <3> QED
      BY <1>1, <1>2, <2>1, <2>2, <3>2, <3>3, <3>4, RowKeeps DEF StepTo
  <2>3. CASE Goto(p, "fail") /\ UNCHANGED job
    <3>1. StepTo(p, "fail", worker[p].srv)
      BY <1>1, <2>3, GotoSteps
    <3>2. Placed(p)' /\ Known(p)'
      BY <1>1, <2>3, <3>1, FailKnows DEF StepTo
    <3> QED
      BY <1>1, <2>1, <2>3, <3>1, <3>2, QuietKeeps DEF StepTo, Quiet
  <2>4. CASE /\ UNCHANGED job
             /\ worker' = [worker EXCEPT ![p].pc = "find", ![p].name = NameOf(worker[p].job),
                                         ![p].req = r.requested, ![p].room = HasRoom]
    <3>1. /\ worker'[p].pc = "find" /\ worker'[p].job = worker[p].job
          /\ worker'[p].name = NameOf(worker[p].job)
          /\ \A q \in Workers \ {p} : worker'[q] = worker[q]
      BY <1>1, <2>4, Typed DEF Execution
    <3>2. NameOf(worker[p].job)[2] = Of(p) /\ Of(p)' = Of(p) /\ JobOf(p)' = r
      BY <2>4, <3>1 DEF NameOf, Of, JobOf
    <3>3. Placed(p)' /\ Known(p)'
      BY <1>2, <2>1, <3>1, <3>2 DEF Placed, Known, Running, At
    <3> QED
      BY <1>1, <2>1, <2>4, <3>1, <3>3, QuietKeeps DEF Quiet
  <2> QED
    BY <1>4, <2>2, <2>3, <2>4 DEF StageProvisioning
<1> QED
  BY <1>3, <1>4

\* The lookup by name, and the mark that a create request is about to be made.
LEMMA LookupSteps ==
  ASSUME SwapInv, NEW p \in Workers, FindCandidate(p)
  PROVE  Safe'
<1> DEFINE r == JobOf(p)
           n == worker[p].name
<1>1. /\ At(p, "find") /\ ~At(p, "idle") /\ worker[p].pc \notin {"idle", "loop", "release"}
      /\ IndTypeOK /\ UNCHANGED <<dep, node, vps, cloud, label, master, observed>>
  BY DEF FindCandidate, At, SwapInv, outside
<1>2. /\ r \in JobRow /\ Of(p) \in Jobs /\ RowOK(Of(p), r) /\ Placed(p) /\ Known(p)
      /\ r.cp \in Running \cup {"cancelled"} /\ r.cp # "completed"
      /\ r = job[Of(p)] /\ Of(p) = worker[p].job
  BY <1>1, BusyRow DEF SwapInv, Rows, Executions, JobOf, Of, Placed, Running
<1>3. n \in Names /\ n[2] = Of(p) /\ n # None
  <2>1. n # None /\ n \in Names \cup {None}
    BY <1>1 DEF IndTypeOK, TypeOK, WorkersTyped, LocalsKnown, Execution, At
  <2> QED
    BY <1>1, <1>2, <2>1 DEF Known, At
<1>4. ASSUME NEW s \in Candidates(n), GotoWith(p, "record", s), UNCHANGED job
      PROVE  Safe'
  <2>1. StepTo(p, "record", s)
    BY <1>1, <1>4, GotoSteps
  <2>2. s \in Servers /\ cloud[s] = "live" /\ label[s] = n /\ Bought(s, Of(p))
    BY <1>3 DEF Candidates, Bought
  <2>3. JobOf(p)' = r /\ Of(p)' = Of(p) /\ Bought(s, Of(p))'
    BY <1>1, <1>4, <2>1, <2>2 DEF JobOf, Of, StepTo, Bought
  <2>4. Placed(p)'
    BY <1>1, <1>2, <2>1, <2>3 DEF Placed, Running, At, StepTo
  <2>5. Known(p)'
    BY <1>1, <2>1, <2>2, <2>3 DEF Known, StepTo
  <2> QED
    BY <1>1, <1>4, <2>1, <2>4, <2>5, QuietKeeps DEF StepTo, Quiet
<1>5. ASSUME Goto(p, "create"), job' = [job EXCEPT ![worker[p].job].requested = TRUE]
      PROVE  Safe'
  <2> DEFINE q == [r EXCEPT !.requested = TRUE]
  <2>1. StepTo(p, "create", worker[p].srv)
    BY <1>1, <1>5, GotoSteps
  <2>2. job' = [job EXCEPT ![worker[p].job] = q]
    BY <1>1, <1>2, <1>5, Typed DEF JobOf
  <2>3. RowOK(Of(p), q) /\ q.slot = r.slot /\ q.cp = r.cp
    BY <1>2 DEF RowOK, JobRow
  <2>4. JobOf(p)' = q /\ Of(p)' = Of(p)
    BY <1>1, <1>2, <2>1, <2>2, Typed DEF JobOf, Of, StepTo
  <2>5. Placed(p)' /\ Known(p)'
    BY <1>1, <1>2, <1>3, <2>1, <2>3, <2>4 DEF Placed, Known, Running, At, StepTo
  <2> HIDE DEF q
  <2> QED
    BY <1>1, <1>2, <2>1, <2>2, <2>3, <2>5, RowKeeps DEF StepTo
<1>6. ASSUME NEW l \in {"fail", "release"}, Goto(p, l), UNCHANGED job
      PROVE  Safe'
  <2>1. StepTo(p, l, worker[p].srv)
    BY <1>1, <1>6, GotoSteps
  <2>2. Placed(p)' /\ Known(p)'
    BY <1>1, <1>6, <2>1, FailKnows, RestKnows DEF StepTo
  <2> QED
    BY <1>1, <1>6, <2>1, <2>2, QuietKeeps DEF StepTo, Quiet
<1> QED
  BY <1>4, <1>5, <1>6 DEF FindCandidate

\* The rollback snapshot, the recorded deployment, and the failure of a job.
LEMMA RowStages ==
  ASSUME SwapInv, NEW p \in Workers, SnapshotMaster(p) \/ RecordDeployment(p) \/ FailJob(p)
  PROVE  Safe'
<1> DEFINE r == JobOf(p)
<1>1. /\ ~At(p, "idle") /\ worker[p].pc \notin {"idle", "loop", "release"} /\ IndTypeOK
      /\ UNCHANGED <<dep, vps, cloud, label, master, observed>> /\ node'.host = node.host
  BY Typed DEF SnapshotMaster, RecordDeployment, FailJob, At, SwapInv, outside
<1>2. /\ r \in JobRow /\ Of(p) \in Jobs /\ RowOK(Of(p), r) /\ Placed(p) /\ Known(p)
      /\ r.cp \in Running \cup {"cancelled"} /\ r.cp # "completed"
      /\ r = job[Of(p)] /\ Of(p) = worker[p].job /\ job \in [Jobs -> JobRow]
  BY <1>1, BusyRow, Typed DEF SwapInv, Rows, Executions, JobOf, Of, Placed, Running
<1>3. ASSUME NEW l, NEW q, Goto(p, l), job' = [job EXCEPT ![worker[p].job] = q],
             RowOK(Of(p), q), q.slot => r.slot, Placed(p)', Known(p)'
      PROVE  Safe'
  <2>1. StepTo(p, l, worker[p].srv)
    BY <1>1, <1>3, GotoSteps
  <2> QED
    BY <1>1, <1>2, <1>3, <2>1, RowKeeps DEF StepTo
<1>4. CASE SnapshotMaster(p)
  <2> DEFINE q == [r EXCEPT !.snap = IF @ = None THEN master.addr ELSE @]
  <2>1. /\ At(p, "master_get") /\ Goto(p, "master_test")
        /\ job' = [job EXCEPT ![worker[p].job] = q]
    BY <1>2, <1>4 DEF SnapshotMaster, JobOf
  <2>2. Evident(master.addr)
    BY DEF SwapInv, World
  <2>3. RowOK(Of(p), q) /\ q.slot = r.slot /\ q.cp = r.cp
    BY <1>2, <2>2 DEF RowOK, JobRow
  <2>4. worker'[p].pc = "master_test" /\ JobOf(p)' = q /\ Of(p)' = Of(p)
    BY <1>1, <1>2, <2>1, GotoSteps DEF JobOf, Of, StepTo
  <2>5. Placed(p)' /\ Known(p)'
    BY <1>2, <2>1, <2>3, <2>4 DEF Placed, Known, Running, At
  <2> HIDE DEF q
  <2> QED
    BY <1>3, <2>1, <2>3, <2>5
<1>5. CASE RecordDeployment(p)
  <2> DEFINE q == [r EXCEPT !.cp = "node_verified", !.deployVerified = TRUE]
  <2>1. /\ At(p, "deploy_record") /\ Goto(p, "loop")
        /\ job' = [job EXCEPT ![worker[p].job] = q]
    BY <1>2, <1>5 DEF RecordDeployment, JobOf
  <2>2. dep[Of(p)][r.attempt].st = "succeeded" /\ r.attempt \in 0..MaxAttempts
    BY <1>2, <2>1 DEF Known, At, DepOf, JobOf, Of, JobRow
  <2>3. r.ipVerified /\ r.cp # "temp_cleanup"
    <3>1. dep[Of(p)][r.attempt] # NoDep
      BY <2>2 DEF NoDep
    <3> QED
      BY <1>2, <2>1, <2>2, <3>1 DEF RowOK, Placed, At, JobOf
  <2>4. /\ q.cp = "node_verified" /\ q.slot = r.slot /\ q.old = r.old /\ q.new = r.new
        /\ q.snap = r.snap /\ q.attempt = r.attempt /\ q.ipVerified = r.ipVerified
        /\ q.deployVerified /\ q.finalVerified = r.finalVerified
    BY <1>2 DEF JobRow
  <2> HIDE DEF q
  <2>5. RowOK(Of(p), q)
    BY <1>2, <2>2, <2>3, <2>4 DEF RowOK, Running, Fetching, Checked, Switchable
  <2>6. Placed(p)' /\ Known(p)'
    BY <1>1, <2>1, GotoSteps, RestKnows DEF StepTo
  <2> QED
    BY <1>3, <2>1, <2>4, <2>5, <2>6
<1>6. CASE FailJob(p)
  <2> DEFINE q == Moved(r, "failed")
  <2>1. Goto(p, "release") /\ (UNCHANGED job \/ job' = [job EXCEPT ![worker[p].job] = q])
    BY <1>6 DEF FailJob
  <2>2. /\ q.cp = "failed" /\ ~q.slot /\ q.old = r.old /\ q.new = r.new
        /\ q.snap = r.snap /\ q.attempt = r.attempt /\ q.ipVerified = r.ipVerified
        /\ q.deployVerified = r.deployVerified /\ q.finalVerified = r.finalVerified
    BY <1>2 DEF JobRow, Moved, Terminal
  <2> HIDE DEF q
  <2>3. RowOK(Of(p), q)
    BY <1>2, <2>2 DEF RowOK, Running, Fetching, Checked, Switchable
  <2>4. StepTo(p, "release", worker[p].srv)
    BY <1>1, <2>1, GotoSteps
  <2>5. Placed(p)' /\ Known(p)'
    BY <2>4, RestKnows DEF StepTo
  <2>6. CASE job' = [job EXCEPT ![worker[p].job] = q]
    BY <1>3, <2>1, <2>2, <2>3, <2>5, <2>6
  <2>7. CASE UNCHANGED job
    <3>1. job' = [job EXCEPT ![worker[p].job] = r]
      BY <1>2, <2>7
    <3> QED
      BY <1>2, <1>3, <2>1, <2>5, <3>1
  <2> QED
    BY <2>1, <2>6, <2>7
<1> QED
  BY <1>4, <1>5, <1>6

\* The deployment row is created for the verified server, and gets its result.
LEMMA DeploymentSteps ==
  ASSUME SwapInv, NEW p \in Workers, StageIpVerified(p) \/ Deploy(p)
  PROVE  Safe'
<1> DEFINE r == JobOf(p)
           j == Of(p)
           d == dep[j][r.attempt]
<1>1. /\ ~At(p, "idle") /\ worker[p].pc \notin {"idle", "loop", "release"} /\ IndTypeOK
      /\ UNCHANGED <<vps, cloud, label, master, observed>> /\ node'.host = node.host
  BY Typed DEF StageIpVerified, Deploy, At, SwapInv, outside
<1>2. /\ r \in JobRow /\ j \in Jobs /\ RowOK(j, r) /\ Placed(p) /\ Known(p)
      /\ r.cp \in Running \cup {"cancelled"} /\ r.cp # "completed" /\ d = DepOf(p)
      /\ r = job[j] /\ j = worker[p].job /\ job \in [Jobs -> JobRow]
      /\ dep \in [Jobs -> [0..MaxAttempts -> Deployment]] /\ r.attempt \in 0..MaxAttempts
      /\ r.new \in Servers \cup {None}
  BY <1>1, BusyRow, Typed DEF SwapInv, Rows, Executions, JobOf, DepOf, Of, Placed, Running
<1>3. ASSUME NEW l, NEW e \in Deployment, NEW q \in JobRow, Goto(p, l),
             job' = [job EXCEPT ![j] = q],
             dep' = [dep EXCEPT ![j][r.attempt] = e],
             d.st = "succeeded" => e = d, q.slot => r.slot,
             RowOK(j, job[j])', Placed(p)', Known(p)'
      PROVE  Safe'
  <2>1. StepTo(p, l, worker[p].srv)
    BY <1>1, <1>3, GotoSteps
  <2>2. job'[j] = q /\ \A k \in Jobs \ {j} : job'[k] = job[k] /\ dep'[k] = dep[k]
    BY <1>2, <1>3
  <2>3. \A k \in Jobs, a \in 0..MaxAttempts : dep[k][a].st = "succeeded" => dep'[k][a] = dep[k][a]
    BY <1>2, <1>3
  <2>4. Calm(p)
    BY <1>1, <1>2, <1>3, <2>1, <2>2, <2>3 DEF Calm, Kept, StepTo
  <2>5. RowOK(Of(p), job[Of(p)])'
    BY <1>3, <2>1 DEF StepTo, Of, RowOK, Bought, Evident
  <2> QED
    BY <1>1, <1>3, <2>1, <2>4, <2>5, CalmStep DEF StepTo
<1>4. CASE StageIpVerified(p)
  <2> DEFINE q == Moved(r, "deploying")
             e == IF d = NoDep THEN [st |-> "pending", vps |-> r.new] ELSE d
  <2>1. /\ At(p, "ip_verified") /\ Goto(p, "loop") /\ Tx(p, q)
        /\ dep' = [dep EXCEPT ![j][r.attempt] = e]
    BY <1>2, <1>4 DEF StageIpVerified
  <2>2. job' = [job EXCEPT ![j] = q] /\ r.new \in Servers /\ r.cp # "cancelled"
    <3>1. Commits(p) /\ <<worker[p].pc, "deploying">> \in Target /\ "deploying" \in Checkpoint
      BY <2>1 DEF Tx, At, Target, Checkpoint, Running
    <3> QED
      BY <1>1, <1>2, <2>1, <3>1, MovesFrom DEF Tx, Commits, NeedsNew, At
  <2>3. r.cp = "ip_verified" /\ <<r.cp, "deploying">> \in Routine
    BY <1>2, <2>1, <2>2 DEF Placed, At, Routine, Running, JobOf
  <2>4. RowOK(j, q) /\ q.slot = r.slot /\ q \in JobRow
    BY <1>2, <2>3, RoutineRow
  <2>5. q.new = r.new /\ q.attempt = r.attempt /\ q.ipVerified /\ r.ipVerified
    BY <1>2, <2>3 DEF Moved, JobRow, RowOK, Checked
  <2> HIDE DEF q
  <2>6. e \in Deployment /\ (d.st = "succeeded" => e = d) /\ e.vps = r.new
    <3>1. d # NoDep => d.vps = r.new
      BY <1>2 DEF RowOK
    <3>2. d \in Deployment /\ NoDep.st # "succeeded"
      BY <1>2 DEF NoDep
    <3> QED
      BY <2>2, <3>1, <3>2 DEF Deployment, MaybeServer
  <2>7. /\ job'[j] = q /\ dep'[j][r.attempt] = e
        /\ \A a \in (0..MaxAttempts) \ {r.attempt} : dep'[j][a] = dep[j][a]
    BY <1>2, <2>1, <2>2
  <2>8. q.snap # None => EvidentThen(q.snap)
    <3>1. Kept
      BY <1>1, <1>2, <2>1, <2>6 DEF Kept
    <3>2. q.snap # None => Evident(q.snap)
      BY <2>4 DEF RowOK
    <3> QED
      BY <3>1, <3>2 DEF Evident, EvidentThen, Kept
  <2>9. RowOK(j, job[j])'
    <3>1. q.deployVerified => e.st = "succeeded"
      BY <2>4, <2>5, <2>6 DEF RowOK
    <3>2. \A a \in 0..MaxAttempts : dep'[j][a] # NoDep =>
            a = q.attempt /\ q.ipVerified /\ dep'[j][a].vps = q.new
      BY <2>4, <2>5, <2>6, <2>7 DEF RowOK
    <3>3. j' = j
      BY <1>1, <2>1, GotoSteps DEF StepTo, Of
    <3> QED
      BY <1>1, <2>4, <2>5, <2>7, <2>8, <3>1, <3>2, <3>3
      DEF RowOK, Bought, Evident, EvidentThen
  <2>10. Placed(p)' /\ Known(p)'
    BY <1>1, <2>1, GotoSteps, RestKnows DEF StepTo
  <2> HIDE DEF e
  <2> QED
    BY <1>3, <2>1, <2>2, <2>4, <2>6, <2>9, <2>10
<1>5. CASE Deploy(p)
  <2>1. /\ worker[p].pc \in {"deploy", "redeploy", "deploy_failed"} /\ job' = job
        /\ job' = [job EXCEPT ![j] = r]
    BY <1>2, <1>5 DEF Deploy, At
  <2>2. ASSUME NEW l \in {"deploy_record", "fail"}, Goto(p, l),
               NEW st \in {"succeeded", "failed"},
               At(p, "deploy"), DeployEnds(p, st), st = "failed" => l = "fail"
        PROVE  Safe'
    <3> DEFINE e == [d EXCEPT !.st = st]
    <3>1. d.st = "pending" /\ d \in Deployment /\ d # NoDep
      <4>1. DepOf(p).st = "pending"
        BY <1>2, <2>2 DEF Known, At
      <4>2. d \in Deployment /\ NoDep.st # "pending"
        BY <1>2 DEF NoDep
      <4>3. d = DepOf(p)
        BY <1>2
      <4> QED
        BY <4>1, <4>2, <4>3
    <3>2. /\ dep' = [dep EXCEPT ![j][r.attempt] = e] /\ e \in Deployment
          /\ e.st = st /\ e.vps = d.vps
      BY <1>2, <2>2, <3>1 DEF DeployEnds, Deployment, JobOf
    <3>3. d.vps = r.new /\ r.ipVerified /\ ~r.deployVerified
      BY <1>2, <3>1 DEF RowOK
    <3> HIDE DEF e
    <3>4. /\ dep'[j][r.attempt] = e
          /\ \A a \in (0..MaxAttempts) \ {r.attempt} : dep'[j][a] = dep[j][a]
      BY <1>2, <3>2
    <3>5. StepTo(p, l, worker[p].srv) /\ JobOf(p)' = r /\ Of(p)' = j /\ DepOf(p)' = e
      BY <1>1, <1>2, <2>1, <2>2, <3>4, GotoSteps DEF StepTo, JobOf, Of, DepOf
    <3>6. r.snap # None => EvidentThen(r.snap)
      <4>1. Kept
        BY <1>1, <1>2, <3>1, <3>2 DEF Kept
      <4>2. r.snap # None => Evident(r.snap)
        BY <1>2 DEF RowOK
      <4> QED
        BY <4>1, <4>2 DEF Evident, EvidentThen, Kept
    <3>7. RowOK(j, job[j])'
      <4>1. \A a \in 0..MaxAttempts : dep'[j][a] # NoDep =>
              a = r.attempt /\ r.ipVerified /\ dep'[j][a].vps = r.new
        BY <1>2, <3>2, <3>3, <3>4 DEF RowOK
      <4>2. r.new # None => label'[r.new] # None /\ label'[r.new][2] = j
        BY <1>1, <1>2 DEF RowOK, Bought
      <4>3. /\ r.slot => r.cp \in Running /\ r.old = node'.host
            /\ r.slot /\ r.new # None /\ r.cp # "temp_cleanup" => cloud'[r.new] # "deleted"
            /\ r.new # None /\ <<"ip", r.new>> \in observed'
            /\ r.finalVerified => <<"final", r.new>> \in observed'
            /\ r.cp \notin Fetching /\ r.cp \notin Switchable
        BY <1>1, <1>2, <3>3 DEF RowOK
      <4>4. job'[j] = r /\ Of(p)' = j /\ j' = j
        BY <1>2, <2>1, <3>5
      <4> QED
        BY <3>3, <3>6, <4>1, <4>2, <4>3, <4>4 DEF RowOK, Bought, Evident, EvidentThen
    <3>8. Placed(p)' /\ Known(p)'
      <4>1. CASE l = "fail"
        BY <1>1, <2>1, <3>5, <4>1, FailKnows DEF StepTo
      <4>2. CASE l = "deploy_record"
        BY <1>2, <2>1, <2>2, <3>2, <3>5, <4>2 DEF Placed, Known, Running, At, StepTo
      <4> QED
        BY <4>1, <4>2
    <3> QED
      BY <1>2, <1>3, <2>1, <2>2, <3>1, <3>2, <3>7, <3>8
  <2>3. ASSUME UNCHANGED dep, Goto(p, "fail")
        PROVE  Safe'
    <3>1. StepTo(p, "fail", worker[p].srv)
      BY <1>1, <2>3, GotoSteps
    <3>2. Placed(p)' /\ Known(p)'
      BY <1>1, <2>1, <3>1, FailKnows DEF StepTo
    <3>3. Quiet
      BY <1>1, <1>5, <2>1, <2>3 DEF Quiet, Deploy
    <3> QED
      BY <1>1, <3>1, <3>2, <3>3, QuietKeeps DEF StepTo
  <2> QED
    BY <1>5, <2>2, <2>3 DEF Deploy
<1> QED
  BY <1>4, <1>5

------------------------------------------------------------------------------
(* Steps that change the servers or the Master.                             *)

\* Whatever the Master is sent to has its evidence.
LEMMA MasterEvidence ==
  ASSUME SwapInv, NEW p \in Workers, UpdateMaster(p) \/ Rollback(p)
  PROVE  Evident(master'.addr)
<1> DEFINE r == JobOf(p)
<1>1. ~At(p, "idle") /\ IndTypeOK
  BY DEF UpdateMaster, Rollback, At, SwapInv
<1>2. /\ r \in JobRow /\ Of(p) \in Jobs /\ RowOK(Of(p), job[Of(p)]) /\ Known(p)
      /\ r = job[Of(p)]
  BY <1>1, BusyRow DEF SwapInv, Rows, Executions, JobOf, Of
<1>3. CASE UpdateMaster(p)
  <2>1. At(p, "master_put") /\ master'.addr = worker[p].srv
    BY <1>3 DEF UpdateMaster, Serving
  <2>2. /\ worker[p].srv = r.new /\ r.new \in Servers /\ r.deployVerified
        /\ r.attempt \in 0..MaxAttempts
    BY <1>2, <2>1 DEF Known, At, JobRow
  <2>3. /\ dep[Of(p)][r.attempt].st = "succeeded" /\ dep[Of(p)][r.attempt].vps = r.new
        /\ <<"ip", r.new>> \in observed
    <3>1. dep[Of(p)][r.attempt].st = "succeeded" /\ NoDep.st # "succeeded"
      BY <1>2, <2>2 DEF RowOK, NoDep
    <3> QED
      BY <1>2, <2>2, <3>1 DEF RowOK
  <2>4. dep[Of(p)][r.attempt] = [st |-> "succeeded", vps |-> r.new]
    <3>1. \A d \in Deployment : d = [st |-> d.st, vps |-> d.vps]
      BY DEF Deployment
    <3>2. dep \in [Jobs -> [0..MaxAttempts -> Deployment]]
      BY <1>1, Typed
    <3>3. dep[Of(p)][r.attempt] \in Deployment
      BY <1>2, <2>2, <3>2
    <3> QED
      BY <2>3, <3>1, <3>3
  <2> QED
    BY <1>2, <2>1, <2>2, <2>3, <2>4 DEF Evident
<1>4. CASE Rollback(p)
  <2>1. At(p, "rollback") /\ Commits(p) /\ master'.addr = r.snap
    BY <1>4 DEF Rollback
  <2>2. r.snap # None
    BY <2>1 DEF Commits, NeedsSnap, At
  <2> QED
    BY <1>2, <2>1, <2>2 DEF RowOK
<1> QED
  BY <1>3, <1>4

\* The Master is only ever sent to a server with its evidence.
LEMMA MasterSteps ==
  ASSUME SwapInv, NEW p \in Workers, UpdateMaster(p) \/ Rollback(p)
  PROVE  Safe'
<1> DEFINE r == JobOf(p)
<1>1. /\ ~At(p, "idle") /\ worker[p].pc \notin {"idle", "loop", "release"} /\ IndTypeOK
      /\ UNCHANGED <<job, dep, node, vps, cloud, label, observed>>
  BY DEF UpdateMaster, Rollback, At, SwapInv, registry
<1>2. /\ r \in JobRow /\ Of(p) \in Jobs /\ RowOK(Of(p), job[Of(p)]) /\ Placed(p) /\ Known(p)
      /\ r.cp \in Running \cup {"cancelled"} /\ r = job[Of(p)] /\ Of(p) = worker[p].job
  BY <1>1, BusyRow DEF SwapInv, Rows, Executions, JobOf, Of, Placed, Running
<1>3. PICK l \in {"master_record", "rollback_verify", "release", "fail"} :
        /\ Goto(p, l)
        /\ l = "master_record" => At(p, "master_put")
        /\ l = "rollback_verify" => At(p, "rollback")
  BY DEF UpdateMaster, Rollback, Interrupted
<1>4. StepTo(p, l, worker[p].srv)
  BY <1>1, <1>3, GotoSteps
<1>5. JobOf(p)' = r /\ Of(p)' = Of(p)
  BY <1>1, <1>4 DEF StepTo, JobOf, Of
<1>6. Placed(p)' /\ Known(p)'
  <2>1. CASE l = "release"
    BY <1>4, <2>1, RestKnows DEF StepTo
  <2>2. CASE l = "fail"
    BY <1>1, <1>4, <2>2, FailKnows DEF StepTo
  <2>3. CASE l \in {"master_record", "rollback_verify"}
    BY <1>2, <1>3, <1>4, <1>5, <2>3 DEF Placed, Known, At, StepTo, Running
  <2> QED
    BY <2>1, <2>2, <2>3
<1>7. Frame(p)
  BY <1>1, <1>4 DEF Frame, Kept, StepTo
<1>8. RowOK(Of(p), job[Of(p)])'
  BY <1>1, <1>2, <1>5 DEF RowOK, Bought, Evident
<1>9. Rows' /\ Executions' /\ Exclusive'
  BY <1>1, <1>4, <1>6, <1>7, <1>8, FrameStep DEF StepTo
<1>10. Evident(master'.addr)
  BY MasterEvidence
<1>11. World'
  BY <1>1, <1>10 DEF SwapInv, World, RegistryAgrees, Bought, Evident
<1> QED
  BY <1>9, <1>11 DEF Safe

\* A server is created under the name the lookup did not find.
LEMMA CreationStep ==
  ASSUME SwapInv, NEW p \in Workers, CreateServer(p)
  PROVE  Safe'
<1> DEFINE r == JobOf(p)
           n == worker[p].name
<1>1. /\ At(p, "create") /\ ~At(p, "idle") /\ worker[p].pc \notin {"idle", "loop", "release"}
      /\ IndTypeOK /\ UNCHANGED <<job, dep, node, vps, master, observed>>
  BY DEF CreateServer, At, SwapInv, registry
<1>2. /\ r \in JobRow /\ Of(p) \in Jobs /\ RowOK(Of(p), job[Of(p)]) /\ Placed(p) /\ Known(p)
      /\ r = job[Of(p)] /\ Of(p) = worker[p].job /\ r.new \in Servers \cup {None}
  BY <1>1, BusyRow, Typed DEF SwapInv, Rows, Executions, JobOf, Of
<1>3. n \in Names /\ n[2] = Of(p) /\ n # None
  <2>1. n # None /\ n \in Names \cup {None}
    BY <1>1 DEF IndTypeOK, TypeOK, WorkersTyped, LocalsKnown, Execution, At
  <2> QED
    BY <1>1, <1>2, <2>1 DEF Known, At
<1>4. ASSUME NEW s \in Fresh, Creates(s, n), GotoWith(p, "record", s)
      PROVE  Safe'
  <2>1. /\ s \in Servers /\ cloud[s] = "absent" /\ label[s] = None /\ vps[s] # "current"
        /\ cloud'[s] = "live" /\ label'[s] = n
        /\ \A t \in Servers \ {s} : cloud'[t] = cloud[t] /\ label'[t] = label[t]
    BY <1>1, <1>4, Typed DEF Fresh, Creates, SwapInv, World
  <2>2. StepTo(p, "record", s) /\ JobOf(p)' = r /\ Of(p)' = Of(p)
    BY <1>1, <1>4, GotoSteps DEF StepTo, JobOf, Of
  <2>3. Frame(p)
    <3>1. \A t \in Servers : label[t] # None => label'[t] = label[t]
      BY <2>1
    <3>2. \A t \in Servers : cloud[t] # "absent" /\ cloud'[t] = "live" => cloud[t] = "live"
      BY <2>1
    <3>3. \A t \in Servers : cloud'[t] = "deleted" => cloud[t] = "deleted"
      BY <2>1
    <3> QED
      BY <1>1, <2>2, <3>1, <3>2, <3>3 DEF Frame, Kept, StepTo
  <2>4. \A t \in Servers, k \in Jobs : Bought(t, k) => Bought(t, k)'
    BY <2>1 DEF Bought
  <2>5. RowOK(Of(p), job[Of(p)])'
    <3>1. r.new # None => label'[r.new] # None /\ label'[r.new][2] = Of(p)
      BY <1>2, <2>1 DEF RowOK, Bought
    <3>2. r.slot /\ r.new # None /\ r.cp # "temp_cleanup" => cloud'[r.new] # "deleted"
      BY <1>2, <2>1 DEF RowOK
    <3> QED
      BY <1>1, <1>2, <2>2, <3>1, <3>2 DEF RowOK, Bought, Evident
  <2>6. Placed(p)' /\ Known(p)'
    <3>1. Bought(s, Of(p))' /\ cloud'[s] # "deleted"
      BY <1>3, <2>1, <2>2 DEF Bought
    <3>2. Placed(p)'
      BY <1>1, <1>2, <2>2 DEF Placed, At, StepTo, Running
    <3> QED
      BY <2>1, <2>2, <3>1, <3>2 DEF Known, StepTo
  <2>7. World'
    <3>1. RegistryAgrees' /\ Evident(master.addr)'
      BY <1>1 DEF SwapInv, World, RegistryAgrees, Evident
    <3>2. \A t \in Servers : label'[t] # None \/ vps'[t] = "current" => cloud'[t] # "absent"
      BY <1>1, <2>1 DEF SwapInv, World
    <3>3. \A t \in Servers, k \in Jobs :
            vps'[t] = "current" /\ Bought(t, k)' => job'[k].cp = "completed"
      BY <1>1, <2>1 DEF SwapInv, World, Bought
    <3> QED
      BY <3>1, <3>2, <3>3 DEF World
  <2> QED
    BY <1>1, <2>2, <2>3, <2>5, <2>6, <2>7, FrameStep DEF Safe, StepTo
<1>5. ASSUME NEW l \in {"release", "fail"}, Goto(p, l), UNCHANGED <<cloud, label>>
      PROVE  Safe'
  <2>1. StepTo(p, l, worker[p].srv)
    BY <1>1, <1>5, GotoSteps
  <2>2. Placed(p)' /\ Known(p)'
    BY <1>1, <1>5, <2>1, FailKnows, RestKnows DEF StepTo, Of
  <2> QED
    BY <1>1, <1>5, <2>1, <2>2, QuietKeeps DEF StepTo, Quiet
<1> QED
  BY <1>4, <1>5 DEF CreateServer

\* The identity of the candidate is persisted.
LEMMA RecordStep ==
  ASSUME SwapInv, NEW p \in Workers, RecordServer(p)
  PROVE  Safe'
<1> DEFINE r == JobOf(p)
           j == Of(p)
           s == worker[p].srv
           q == [Moved(r, "provisioned") EXCEPT !.new = s]
<1>1. /\ At(p, "record") /\ ~At(p, "idle") /\ Tx(p, q) /\ Goto(p, "loop") /\ Commits(p)
      /\ IndTypeOK /\ UNCHANGED <<dep, node, cloud, label, master, observed>>
      /\ vps' = [vps EXCEPT ![s] = IF @ = "current" THEN @ ELSE "replacement"]
  BY DEF RecordServer, At, SwapInv, outside, Tx
<1>2. <<worker[p].pc, "provisioned">> \in Target /\ "provisioned" \in Checkpoint
  BY <1>1 DEF At, Target, Checkpoint, Running
<1>3. /\ r \in JobRow /\ RowOK(j, r) /\ j \in Jobs /\ Placed(p) /\ Known(p)
      /\ r.cp = "provisioning" /\ r = job[j] /\ j = worker[p].job
  <2>1. /\ r \in JobRow /\ RowOK(j, r) /\ j \in Jobs /\ Placed(p) /\ Known(p)
        /\ r.cp # "cancelled"
    BY <1>1, <1>2, MovesFrom
  <2> QED
    BY <1>1, <2>1 DEF Placed, At, JobOf, Of
<1>4. s \in Servers /\ s # None /\ Bought(s, j) /\ cloud[s] # "deleted"
  BY <1>1, <1>3, NoneNoServer DEF Known, At
<1>5. /\ q.cp = "provisioned" /\ q.slot = r.slot /\ q.old = r.old /\ q.new = s
      /\ q.snap = r.snap /\ q.attempt = r.attempt /\ q.ipVerified = r.ipVerified
      /\ q.deployVerified = r.deployVerified /\ q.finalVerified = r.finalVerified
  BY <1>3 DEF Moved, JobRow, Terminal
<1>6. \A a \in 0..MaxAttempts : dep[j][a] = NoDep
  BY <1>3 DEF RowOK, Fetching
<1>7. ~r.deployVerified /\ ~r.ipVerified /\ ~r.finalVerified
  <2>1. r.attempt \in 0..MaxAttempts /\ NoDep.st # "succeeded"
    BY <1>3 DEF JobRow, NoDep
  <2> QED
    BY <1>3, <1>6, <2>1 DEF RowOK, Fetching
<1> HIDE DEF q
<1>8. job' = [job EXCEPT ![j] = q] /\ job'[j] = q /\ \A k \in Jobs \ {j} : job'[k] = job[k]
  BY <1>1, <1>3, Typed DEF Tx
<1>9. StepTo(p, "loop", s) /\ Of(p)' = j
  BY <1>1, GotoSteps DEF StepTo, Of
<1>10. \A t \in Servers : /\ vps'[t] = "current" <=> vps[t] = "current"
                          /\ t # s => vps'[t] = vps[t]
  BY <1>1, <1>4, Typed
<1>11. Frame(p)
  BY <1>1, <1>3, <1>4, <1>8, <1>9, <1>10 DEF Frame, Kept, StepTo
<1>12. RowOK(Of(p), job[Of(p)])'
  <2>1. label'[q.new] # None /\ label'[q.new][2] = j /\ cloud'[q.new] # "deleted"
    BY <1>1, <1>4, <1>5, <1>9 DEF Bought
  <2>2. q.snap # None => EvidentThen(q.snap)
    BY <1>1, <1>3, <1>5 DEF RowOK, Evident, EvidentThen
  <2>3. q.slot => q.cp \in Running /\ q.old = node'.host
    BY <1>1, <1>3, <1>5 DEF RowOK, Running
  <2>4. /\ ~q.ipVerified /\ ~q.deployVerified /\ ~q.finalVerified
        /\ q.cp \notin Checked /\ q.cp \notin Switchable
    BY <1>5, <1>7 DEF Checked, Switchable
  <2>5. job'[j] = q /\ Of(p)' = j /\ \A a \in 0..MaxAttempts : dep'[j][a] = NoDep
    BY <1>1, <1>6, <1>8, <1>9
  <2> QED
    BY <2>1, <2>2, <2>3, <2>4, <2>5 DEF RowOK, Bought, Evident, EvidentThen
<1>13. World'
  <2>1. RegistryAgrees' /\ Evident(master.addr)'
    BY <1>1, <1>10 DEF SwapInv, World, RegistryAgrees, Evident
  <2>2. \A t \in Servers, k \in Jobs :
          vps'[t] = "current" /\ Bought(t, k)' => job'[k].cp = "completed"
    BY <1>1, <1>3, <1>8, <1>10 DEF SwapInv, World, Bought
  <2> QED
    BY <1>1, <1>10, <2>1, <2>2 DEF SwapInv, World
<1>14. Placed(p)' /\ Known(p)'
  BY <1>9, RestKnows DEF StepTo
<1> QED
  BY <1>1, <1>3, <1>5, <1>8, <1>9, <1>11, <1>12, <1>13, <1>14, FrameStep DEF Safe, StepTo

\* A candidate that the provider no longer has, and the end of a cleanup.
LEMMA DiscardRecords ==
  ASSUME SwapInv, NEW p \in Workers, CandidateGone(p) \/ RecordTempCleanup(p)
  PROVE  Safe'
<1> DEFINE r == JobOf(p)
           j == Of(p)
<1>1. /\ ~At(p, "idle") /\ worker[p].pc \notin {"idle", "loop", "release"} /\ IndTypeOK
      /\ UNCHANGED <<dep, node, cloud, label, master, observed>> /\ Commits(p)
  BY DEF CandidateGone, RecordTempCleanup, At, SwapInv, outside, Tx
<1>2. /\ r \in JobRow /\ j \in Jobs /\ RowOK(j, r) /\ Placed(p) /\ Known(p)
      /\ r.cp \in Running \cup {"cancelled"} /\ r.cp # "completed"
      /\ r = job[j] /\ j = worker[p].job /\ job \in [Jobs -> JobRow]
      /\ r.new \in Servers \cup {None} /\ vps \in [Servers -> {"none", "current", "replacement", "deleted"}]
  BY <1>1, BusyRow, Typed DEF SwapInv, Rows, Executions, JobOf, Of, Placed, Running
<1>3. ASSUME NEW q, NEW l, Goto(p, l), job' = [job EXCEPT ![j] = q], q.slot => r.slot,
             RowOK(j, q), Placed(p)', Known(p)',
             \A s \in Servers : s # r.new => vps'[s] = vps[s],
             r.new # None => vps'[r.new] = "deleted"
      PROVE  Safe'
  <2>1. StepTo(p, l, worker[p].srv) /\ Of(p)' = j
    BY <1>1, <1>3, GotoSteps DEF StepTo, Of
  <2>2. job'[j] = q /\ \A k \in Jobs \ {j} : job'[k] = job[k]
    BY <1>2, <1>3
  <2>3. r.new # None => Bought(r.new, j) /\ vps[r.new] # "current"
    BY <1>2 DEF RowOK, SwapInv, World
  <2>4. \A s \in Servers : vps'[s] = "current" <=> vps[s] = "current"
    BY <1>2, <1>3, <2>3, NoneNoServer
  <2>5. Frame(p)
    BY <1>1, <1>2, <1>3, <2>1, <2>2, <2>3, NoneNoServer DEF Frame, Kept, StepTo
  <2>6. RowOK(Of(p), job[Of(p)])'
    BY <1>1, <1>3, <2>1, <2>2 DEF RowOK, Bought, Evident
  <2>7. World'
    <3>1. RegistryAgrees' /\ Evident(master.addr)'
      BY <1>1, <2>4 DEF SwapInv, World, RegistryAgrees, Evident
    <3>2. \A t \in Servers, k \in Jobs :
            vps'[t] = "current" /\ Bought(t, k)' => job'[k].cp = "completed"
      BY <1>1, <1>2, <2>2, <2>4 DEF SwapInv, World, Bought
    <3> QED
      BY <1>1, <2>4, <3>1, <3>2 DEF SwapInv, World
  <2> QED
    BY <1>1, <1>2, <1>3, <2>1, <2>2, <2>5, <2>6, <2>7, FrameStep DEF Safe, StepTo
<1>4. CASE CandidateGone(p)
  <2> DEFINE q == Moved(r, "temp_cleanup")
  <2>1. /\ At(p, "gone") /\ Tx(p, q) /\ Goto(p, "loop")
        /\ vps' = [vps EXCEPT ![r.new] = "deleted"]
    BY <1>4 DEF CandidateGone
  <2>2. /\ <<worker[p].pc, "temp_cleanup">> \in Target /\ "temp_cleanup" \in Checkpoint
        /\ r.new # None
    BY <1>1, <2>1 DEF At, Target, Checkpoint, Running, Commits, NeedsNew
  <2>3. <<r.cp, "temp_cleanup">> \in Routine
    BY <1>1, <1>2, <2>1, <2>2, MovesFrom DEF Placed, At, Routine, JobOf
  <2>4. RowOK(j, q) /\ q.slot = r.slot
    BY <1>2, <2>3, RoutineRow
  <2>5. job' = [job EXCEPT ![j] = q]
    BY <1>2, <2>1 DEF Tx
  <2>6. Placed(p)' /\ Known(p)'
    BY <1>1, <2>1, GotoSteps, RestKnows DEF StepTo
  <2>7. vps'[r.new] = "deleted" /\ \A s \in Servers : s # r.new => vps'[s] = vps[s]
    BY <1>2, <2>1, <2>2
  <2> HIDE DEF q
  <2> QED
    BY <1>3, <2>1, <2>4, <2>5, <2>6, <2>7
<1>5. CASE RecordTempCleanup(p)
  <2> DEFINE m == [r EXCEPT !.new = None, !.requested = FALSE]
             n == [Moved(m, "provisioning") EXCEPT !.attempt = @ + 1]
  <2>1. /\ At(p, "temp_record")
        /\ \/ Goto(p, "fail") /\ job' = [job EXCEPT ![j] = m]
           \/ Goto(p, "loop") /\ job' = [job EXCEPT ![j] = n]
        /\ \A s \in Servers : s # r.new => vps'[s] = vps[s]
        /\ r.new # None => vps'[r.new] = "deleted"
    BY <1>2, <1>5 DEF RecordTempCleanup, Tx
  <2>2. ~r.ipVerified /\ ~r.finalVerified /\ r.cp \in {"temp_cleanup", "cancelled"}
    BY <1>2, <2>1 DEF Known, Placed, At, JobOf
  <2>3. \A a \in 0..MaxAttempts : dep[j][a] = NoDep
    BY <1>2, <2>2 DEF RowOK
  <2>4. ~r.deployVerified
    <3>1. r.attempt \in 0..MaxAttempts /\ NoDep.st # "succeeded"
      BY <1>2 DEF JobRow, NoDep
    <3> QED
      BY <1>2, <2>3, <3>1 DEF RowOK
  <2>5. /\ m.cp = r.cp /\ m.slot = r.slot /\ m.old = r.old /\ m.new = None
        /\ m.snap = r.snap /\ ~m.ipVerified /\ ~m.deployVerified /\ ~m.finalVerified
    BY <1>2, <2>2, <2>4 DEF JobRow
  <2>6. /\ n.cp = "provisioning" /\ n.slot = r.slot /\ n.old = r.old /\ n.new = None
        /\ n.snap = r.snap /\ ~n.ipVerified /\ ~n.deployVerified /\ ~n.finalVerified
    BY <1>2, <2>2, <2>4 DEF JobRow, Moved, Terminal
  <2> HIDE DEF m, n
  <2>7. RowOK(j, m)
    BY <1>2, <2>2, <2>3, <2>5 DEF RowOK, Checked, Switchable
  <2>8. RowOK(j, n)
    BY <1>2, <2>2, <2>3, <2>6 DEF RowOK, Checked, Switchable, Running
  <2>9. CASE Goto(p, "fail") /\ job' = [job EXCEPT ![j] = m]
    <3>1. job'[Of(p)].cp = job[Of(p)].cp
      BY <1>2, <2>5, <2>9
    <3>2. Placed(p)' /\ Known(p)'
      BY <1>1, <2>9, <3>1, GotoSteps, FailKnows DEF StepTo
    <3> QED
      BY <1>3, <2>1, <2>5, <2>7, <2>9, <3>2
  <2>10. CASE Goto(p, "loop") /\ job' = [job EXCEPT ![j] = n]
    <3>1. Placed(p)' /\ Known(p)'
      BY <1>1, <2>10, GotoSteps, RestKnows DEF StepTo
    <3> QED
      BY <1>3, <2>1, <2>6, <2>8, <2>10, <3>1
  <2> QED
    BY <2>1, <2>9, <2>10
<1> QED
  BY <1>4, <1>5

\* What deleting its own server leaves good: the row and the world.
LEMMA DeletionKeeps ==
  ASSUME SwapInv, NEW p \in Workers, NEW l, NEW s \in Servers,
         worker[p].pc \in {"temp_delete", "old_delete"}, s = worker[p].srv,
         cloud' = [cloud EXCEPT ![s] = "deleted"], Goto(p, l),
         UNCHANGED <<job, dep, node, vps, label, master, observed>>,
         JobOf(p).slot /\ JobOf(p).cp # "temp_cleanup" => s # JobOf(p).new,
         Placed(p)', Known(p)'
  PROVE  Safe'
<1> DEFINE r == JobOf(p)
<1>1. ~At(p, "idle") /\ IndTypeOK /\ Of(p) \in Jobs /\ RowOK(Of(p), r) /\ r = job[Of(p)]
  BY Typed DEF At, SwapInv, Rows, JobOf, Of
<1>2. StepTo(p, l, s) /\ Of(p)' = Of(p)
  BY <1>1, GotoSteps DEF StepTo, Of
<1>3. \A t \in Servers : cloud'[t] = IF t = s THEN "deleted" ELSE cloud[t]
  BY <1>1, Typed
<1>4. Frame(p)
  BY <1>2, <1>3 DEF Frame, Kept, StepTo
<1>5. RowOK(Of(p), job[Of(p)])'
  <2>1. r.new \in Servers \cup {None}
    BY <1>1, Typed
  <2>2. r.slot /\ r.new # None /\ r.cp # "temp_cleanup" => cloud'[r.new] # "deleted"
    BY <1>1, <1>3, <2>1 DEF RowOK
  <2> QED
    BY <1>1, <1>2, <2>2 DEF RowOK, Bought, Evident
<1>6. World'
  BY <1>3 DEF SwapInv, World, RegistryAgrees, Bought, Evident
<1> QED
  BY <1>1, <1>2, <1>4, <1>5, <1>6, FrameStep DEF Safe, StepTo

\* The provider's answer to a deletion changes nothing else.
LEMMA NoDeletionKeeps ==
  ASSUME SwapInv, NEW p \in Workers, NEW l, ~At(p, "idle"), Goto(p, l),
         UNCHANGED <<job, dep, node, vps, cloud, label, master, observed>>,
         Placed(p)', Known(p)'
  PROVE  Safe'
<1>1. StepTo(p, l, worker[p].srv)
  BY GotoSteps DEF SwapInv
<1> QED
  BY <1>1, QuietKeeps DEF StepTo, Quiet

\* A bad candidate is deleted, and the old server once the guard has passed.
LEMMA DeletionSteps ==
  ASSUME SwapInv, NEW p \in Workers, DeleteTemporary(p) \/ DeleteOldVps(p)
  PROVE  Safe'
<1> DEFINE r == JobOf(p)
           s == worker[p].srv
<1>1. /\ ~At(p, "idle") /\ worker[p].pc \notin {"idle", "loop", "release"} /\ IndTypeOK
      /\ worker[p].pc \in {"temp_delete", "old_delete"}
      /\ UNCHANGED <<job, dep, node, vps, label, master, observed>>
  BY DEF DeleteTemporary, DeleteOldVps, At, SwapInv, registry
<1>2. /\ r \in JobRow /\ Of(p) \in Jobs /\ RowOK(Of(p), r) /\ Placed(p) /\ Known(p)
      /\ r.cp \in Running \cup {"cancelled"} /\ r = job[Of(p)] /\ Of(p) = worker[p].job
      /\ cloud \in [Servers -> {"absent", "live", "deleted", "lost"}]
      /\ r.old \in Servers \cup {None} /\ r.new \in Servers \cup {None}
  BY <1>1, BusyRow, Typed DEF SwapInv, Rows, Executions, JobOf, Of, Placed, Running
<1>3. ASSUME NEW l, Goto(p, l)
      PROVE  /\ StepTo(p, l, s) /\ JobOf(p)' = r /\ Of(p)' = Of(p) /\ DepOf(p)' = DepOf(p)
             /\ l = "release" => Placed(p)' /\ Known(p)'
             /\ l = "fail" => Placed(p)' /\ Known(p)'
  <2>1. StepTo(p, l, s)
    BY <1>1, <1>3, GotoSteps
  <2>2. l = "release" => Placed(p)' /\ Known(p)'
    BY <2>1, RestKnows DEF StepTo
  <2>3. l = "fail" => Placed(p)' /\ Known(p)'
    BY <1>1, <2>1, FailKnows DEF StepTo
  <2> QED
    BY <1>1, <2>1, <2>2, <2>3 DEF StepTo, JobOf, DepOf, Of
<1>4. CASE DeleteTemporary(p)
  <2>1. At(p, "temp_delete") /\ s \in Servers /\ s = r.new /\ ~r.ipVerified /\ ~r.finalVerified
    BY <1>2, <1>4 DEF DeleteTemporary, Known, At
  <2>2. r.slot => r.cp = "temp_cleanup"
    BY <1>2, <2>1 DEF RowOK, Placed, Running, At, JobOf
  <2>3. ASSUME Goto(p, "temp_record") PROVE Placed(p)' /\ Known(p)'
    BY <1>2, <1>3, <2>1, <2>3 DEF Placed, Known, Running, At, StepTo
  <2>4. PICK l \in {"temp_record", "release", "fail"} :
          Goto(p, l) /\ (Deletes(s) \/ UNCHANGED cloud)
    BY <1>4 DEF DeleteTemporary
  <2>5. Placed(p)' /\ Known(p)'
    BY <1>3, <2>3, <2>4
  <2>6. CASE Deletes(s)
    BY <1>1, <2>1, <2>2, <2>4, <2>5, <2>6, DeletionKeeps DEF Deletes
  <2>7. CASE UNCHANGED cloud
    BY <1>1, <2>4, <2>5, <2>7, NoDeletionKeeps
  <2> QED
    BY <2>4, <2>6, <2>7
<1>5. CASE DeleteOldVps(p)
  <2>1. At(p, "old_delete") /\ s = r.old /\ r.slot /\ GuardPasses(r, DepOf(p))
    BY <1>2, <1>5 DEF DeleteOldVps, Known, At
  <2>2. s \in Servers /\ s # r.new
    <3>1. r.old = node.host
      BY <1>2, <2>1 DEF RowOK
    <3> QED
      BY <1>1, <2>1, <3>1, Typed DEF GuardPasses
  <2>3. PICK l \in {"finish", "release"} :
          /\ Goto(p, l)
          /\ \/ Deletes(s)
             \/ UNCHANGED cloud /\ cloud[s] # "live"
    BY <1>5 DEF DeleteOldVps
  <2>4. Placed(p)' /\ Known(p)'
    <3>1. CASE l = "release"
      BY <1>3, <2>3, <3>1
    <3>2. CASE l = "finish"
      <4>1. cloud'[r.old] # "live"
        BY <1>2, <2>1, <2>2, <2>3 DEF Deletes
      <4>2. GuardPasses(JobOf(p), DepOf(p))'
        BY <1>1, <1>3, <2>1, <2>3 DEF GuardPasses
      <4>3. Placed(p)'
        BY <1>2, <1>3, <2>1, <2>3, <3>2 DEF Placed, Running, At, StepTo
      <4> QED
        BY <1>3, <2>1, <2>3, <3>2, <4>1, <4>2, <4>3 DEF Known, StepTo
    <3> QED
      BY <2>3, <3>1, <3>2
  <2>5. CASE Deletes(s)
    BY <1>1, <2>1, <2>2, <2>3, <2>4, <2>5, DeletionKeeps DEF Deletes
  <2>6. CASE UNCHANGED cloud
    BY <1>1, <2>3, <2>4, <2>6, NoDeletionKeeps
  <2> QED
    BY <2>3, <2>5, <2>6
<1> QED
  BY <1>4, <1>5

\* The registry adopts the new server.
LEMMA FinishStep ==
  ASSUME SwapInv, NEW p \in Workers, Finish(p)
  PROVE  Safe'
<1> DEFINE r == JobOf(p)
           j == Of(p)
           q == Moved(r, "completed")
<1>1. /\ At(p, "finish") /\ ~At(p, "idle") /\ IndTypeOK /\ Goto(p, "loop") /\ Tx(p, q)
      /\ UNCHANGED <<dep, cloud, label, master, observed>>
      /\ vps' = [vps EXCEPT ![r.old] = "deleted", ![r.new] = "current"]
      /\ node' = [node EXCEPT !.state = "HEALTHY", !.host = r.new]
  BY DEF Finish, At, SwapInv, outside
<1>2. /\ r \in JobRow /\ j \in Jobs /\ RowOK(j, r) /\ Known(p)
      /\ r = job[j] /\ j = worker[p].job /\ r.new \in Servers \cup {None}
      /\ node.host \in Servers
  BY <1>1, BusyRow, Typed DEF SwapInv, Rows, Executions, JobOf, Of
<1>3. /\ r.slot /\ r.old = node.host /\ r.new # r.old /\ vps[r.new] = "replacement"
      /\ cloud[r.old] # "live" /\ r.new # None /\ r.new \in Servers /\ Bought(r.new, j)
  <2>1. r.slot /\ GuardPasses(r, DepOf(p)) /\ cloud[r.old] # "live"
    BY <1>1, <1>2 DEF Known, At
  <2>2. r.new # None
    BY <1>1 DEF Tx, Commits, NeedsNew, At
  <2> QED
    BY <1>2, <2>1, <2>2 DEF RowOK, GuardPasses
<1>4. \A s \in Servers : vps'[s] = CASE s = r.new -> "current" [] s = r.old -> "deleted"
                                     [] OTHER -> vps[s]
  BY <1>1, <1>2, <1>3, Typed
<1>5. node'.host = r.new
  BY <1>1, Typed
<1>6. /\ q.cp = "completed" /\ ~q.slot /\ q.old = r.old /\ q.new = r.new
      /\ q.snap = r.snap /\ q.attempt = r.attempt /\ q.ipVerified = r.ipVerified
      /\ q.deployVerified = r.deployVerified /\ q.finalVerified = r.finalVerified
  BY <1>2 DEF JobRow, Moved, Terminal
<1> HIDE DEF q
<1>7. job' = [job EXCEPT ![j] = q] /\ job'[j] = q /\ \A k \in Jobs \ {j} : job'[k] = job[k]
  BY <1>1, <1>2, Typed DEF Tx
<1>8. StepTo(p, "loop", worker[p].srv) /\ Of(p)' = j
  BY <1>1, GotoSteps DEF StepTo, Of
<1>9. Frame(p)
  BY <1>1, <1>7, <1>8 DEF Frame, Kept, StepTo, At
<1>10. RowOK(Of(p), job[Of(p)])'
  <2>1. q.new # None => label'[q.new] # None /\ label'[q.new][2] = j
    BY <1>1, <1>2, <1>3, <1>6, <1>8 DEF Bought
  <2>2. q.snap # None => EvidentThen(q.snap)
    BY <1>1, <1>2, <1>6 DEF RowOK, Evident, EvidentThen
  <2>3. ~q.slot /\ q.cp \notin Fetching /\ q.cp \notin Checked /\ q.cp \notin Switchable
    BY <1>6 DEF Fetching, Checked, Switchable
  <2>4. job'[j] = q /\ Of(p)' = j /\ dep' = dep /\ observed' = observed
    BY <1>1, <1>7, <1>8
  <2>5. /\ q.ipVerified => q.new # None /\ <<"ip", q.new>> \in observed
        /\ q.finalVerified => <<"final", q.new>> \in observed
        /\ \A a \in 0..MaxAttempts :
             dep[j][a] # NoDep => a = q.attempt /\ q.ipVerified /\ dep[j][a].vps = q.new
        /\ q.deployVerified => dep[j][q.attempt].st = "succeeded"
    BY <1>2, <1>6 DEF RowOK
  <2> QED
    BY <2>1, <2>2, <2>3, <2>4, <2>5 DEF RowOK, Bought, Evident, EvidentThen
<1>11. Placed(p)' /\ Known(p)'
  BY <1>8, RestKnows DEF StepTo
<1>12. World'
  <2>1. \A s \in Servers : vps[s] = "current" <=> s = r.old
    BY <1>2, <1>3 DEF SwapInv, World, RegistryAgrees
  <2>2. \A s \in Servers : vps'[s] = "current" <=> s = r.new
    BY <1>3, <1>4, <2>1
  <2>3. RegistryAgrees'
    BY <1>3, <1>5, <2>2 DEF RegistryAgrees
  <2>4. \A s \in Servers : label'[s] # None \/ vps'[s] = "current" => cloud'[s] # "absent"
    BY <1>1, <1>3, <2>2 DEF SwapInv, World, Bought
  <2>5. \A s \in Servers, k \in Jobs :
          vps'[s] = "current" /\ Bought(s, k)' => job'[k].cp = "completed"
    BY <1>1, <1>3, <1>6, <1>7, <2>2 DEF Bought
  <2>6. Evident(master.addr)'
    BY <1>1 DEF SwapInv, World, Evident
  <2> QED
    BY <2>3, <2>4, <2>5, <2>6 DEF World
<1> QED
  BY <1>1, <1>2, <1>6, <1>7, <1>8, <1>9, <1>10, <1>11, <1>12, FrameStep DEF Safe, StepTo

------------------------------------------------------------------------------
(* The beginnings and ends of executions, the operator and the environment. *)

\* An execution that begins or ends.
LEMMA RestKeeps ==
  ASSUME SwapInv, NEW p \in Workers, worker'[p].pc \in {"idle", "loop", "release"},
         \A q \in Workers \ {p} : worker'[q] = worker[q],
         UNCHANGED <<job, dep, node, vps, cloud, label, master, observed>>
  PROVE  Safe'
<1>1. Rows'
  BY DEF SwapInv, Rows, RowOK, Bought, Evident
<1>2. World' /\ Exclusive'
  BY ZenonT(60) DEF SwapInv, World, Exclusive, RegistryAgrees, Bought, Evident
<1>3. ASSUME NEW q \in Workers PROVE Placed(q)' /\ Known(q)'
  <2>1. CASE q = p
    BY <2>1, RestKnows
  <2>2. CASE q # p
    <3>1. worker'[q] = worker[q] /\ Placed(q) /\ Known(q)
      BY <2>2 DEF SwapInv, Executions
    <3> QED
      BY <3>1, ZenonT(60) DEF Placed, Known, JobOf, DepOf, Of, GuardPasses, Bought
  <2> QED
    BY <2>1, <2>2
<1> QED
  BY <1>1, <1>2, <1>3 DEF Safe, Executions

\* Acquiring the lease, releasing it, and dying with it.
LEMMA LeaseSteps ==
  ASSUME SwapInv, NEW p \in Workers,
         Release(p) \/ Crash(p) \/ \E j \in Jobs : Acquire(p, j)
  PROVE  Safe'
<1>1. UNCHANGED <<job, dep, node, vps, cloud, label, master, observed>>
  BY DEF Release, Crash, Acquire, registry, outside
<1>2. worker \in [Workers -> Execution]
  BY Typed DEF SwapInv
<1>3. /\ worker'[p].pc \in {"idle", "loop", "release"}
      /\ \A q \in Workers \ {p} : worker'[q] = worker[q]
  <2>1. CASE Release(p)
    BY <1>2, <2>1 DEF Release, Asleep
  <2>2. CASE Crash(p)
    BY <1>2, <2>2 DEF Crash, Asleep
  <2>3. ASSUME NEW j \in Jobs, Acquire(p, j)
        PROVE  /\ worker'[p].pc \in {"idle", "loop", "release"}
               /\ \A q \in Workers \ {p} : worker'[q] = worker[q]
    BY <1>2, <2>3 DEF Acquire, Asleep
  <2> QED
    BY <2>1, <2>2, <2>3
<1> QED
  BY <1>1, <1>3, RestKeeps

\* Steps that change no row, server or execution.
LEMMA BystanderKeeps ==
  ASSUME SwapInv, UNCHANGED <<job, dep, vps, cloud, label, master, observed, worker>>,
         node'.host = node.host
  PROVE  Safe'
<1>1. Rows'
  BY DEF SwapInv, Rows, RowOK, Bought, Evident
<1>2. World' /\ Exclusive'
  BY ZenonT(60) DEF SwapInv, World, Exclusive, RegistryAgrees, Bought, Evident
<1>3. ASSUME NEW q \in Workers PROVE Placed(q)' /\ Known(q)'
  <2>1. Placed(q) /\ Known(q)
    BY DEF SwapInv, Executions
  <2> QED
    BY <2>1, ZenonT(60) DEF Placed, Known, JobOf, DepOf, Of, GuardPasses, Bought
<1> QED
  BY <1>1, <1>2, <1>3 DEF Safe, Executions

\* A server comes to life under a name, or disappears, between two steps.
LEMMA ProviderKeeps ==
  ASSUME SwapInv, UNCHANGED <<job, dep, node, vps, master, observed, worker>>,
         \A s \in Servers : label[s] # None => label'[s] = label[s],
         \A s \in Servers : label'[s] # None \/ cloud[s] # "absent" => cloud'[s] # "absent",
         \A s \in Servers : label'[s] # label[s] => cloud[s] = "absent",
         \A s \in Servers : cloud'[s] = "deleted" => cloud[s] = "deleted",
         \A s \in Servers : cloud'[s] = "live" => cloud[s] \in {"live", "absent"}
  PROVE  Safe'
<1>1. Rows'
  <2>1. ASSUME NEW j \in Jobs PROVE RowOK(j, job[j])'
    <3> DEFINE r == job[j]
    <3>1. RowOK(j, r) /\ r.new \in Servers \cup {None}
      BY Typed DEF SwapInv, Rows
    <3>2. r.new # None => label'[r.new] # None /\ label'[r.new][2] = j
      BY <3>1 DEF RowOK, Bought
    <3>3. r.slot /\ r.new # None /\ r.cp # "temp_cleanup" => cloud'[r.new] # "deleted"
      BY <3>1 DEF RowOK
    <3> QED
      BY <3>1, <3>2, <3>3 DEF RowOK, Bought, Evident
  <2> QED
    BY <2>1 DEF Rows
<1>2. World' /\ Exclusive'
  BY DEF SwapInv, World, Exclusive, RegistryAgrees, Bought, Evident
<1>3. ASSUME NEW q \in Workers PROVE Placed(q)' /\ Known(q)'
  <2>1. Placed(q) /\ Known(q)
    BY DEF SwapInv, Executions
  <2>2. Placed(q)'
    BY <2>1 DEF Placed, JobOf
  <2>3. At(q, "record") =>
          /\ label'[worker[q].srv] # None /\ label'[worker[q].srv][2] = Of(q)
          /\ cloud'[worker[q].srv] # "deleted"
    BY <2>1 DEF Known, At, Bought
  <2>4. At(q, "finish") => cloud'[JobOf(q).old] # "live"
    <3> SUFFICES ASSUME At(q, "finish") PROVE cloud'[JobOf(q).old] # "live"
      OBVIOUS
    <3>1. /\ JobOf(q).slot /\ vps[JobOf(q).old] = "current" /\ cloud[JobOf(q).old] # "live"
          /\ JobOf(q) = job[Of(q)] /\ Of(q) \in Jobs
      BY <2>1, Typed DEF Known, At, GuardPasses, JobOf, Of, SwapInv
    <3>2. JobOf(q).old \in Servers
      <4>1. RowOK(Of(q), job[Of(q)]) /\ node.host \in Servers
        BY <3>1, Typed DEF Rows, SwapInv
      <4> QED
        BY <3>1, <4>1 DEF RowOK
    <3> QED
      BY <3>1, <3>2 DEF SwapInv, World
  <2> QED
    BY <2>1, <2>2, <2>3, <2>4 DEF Known, At, JobOf, DepOf, Of, GuardPasses, Bought
<1> QED
  BY <1>1, <1>2, <1>3 DEF Safe, Executions

\* The environment, as long as no lease runs out under its holder.
LEMMA EnvironmentSteps ==
  ASSUME SwapInv, Environment, "lapse" \notin Faults
  PROVE  Safe'
<1>1. ASSUME NEW p \in Workers, Crash(p) PROVE Safe'
  BY <1>1, LeaseSteps
<1>2. ASSUME NEW p \in Workers, Lapse(p) PROVE FALSE
  BY <1>2 DEF Lapse, Misfortune
<1>3. ASSUME NEW j \in Jobs, Expire(j) PROVE Safe'
  BY <1>3, BystanderKeeps DEF Expire, registry, outside
<1>4. ASSUME NEW n \in inflight, Settle(n) PROVE Safe'
  <2>1. n \in Names /\ n # None
    BY NamesOwned DEF SwapInv, IndTypeOK, TypeOK, OutsideTyped
  <2>2. UNCHANGED <<job, dep, node, vps, master, observed, worker>>
    BY <1>4 DEF Settle, registry
  <2>3. CASE UNCHANGED <<cloud, label>>
    BY <2>2, <2>3, BystanderKeeps
  <2>4. ASSUME NEW s \in Fresh, Creates(s, n) PROVE Safe'
    <3>1. /\ s \in Servers /\ cloud[s] = "absent" /\ label[s] = None
          /\ cloud'[s] = "live" /\ label'[s] = n
          /\ \A t \in Servers \ {s} : cloud'[t] = cloud[t] /\ label'[t] = label[t]
      BY <2>4, Typed DEF Fresh, Creates, SwapInv, World
    <3>2. \A t \in Servers : label[t] # None => cloud[t] # "absent"
      BY DEF SwapInv, World
    <3> QED
      BY <2>2, <3>1, <3>2, ProviderKeeps
  <2> QED
    BY <1>4, <2>3, <2>4 DEF Settle
<1>5. ASSUME NEW s \in Servers, LoseServer(s) PROVE Safe'
  <2>1. UNCHANGED <<job, dep, node, vps, label, master, observed, worker>>
    BY <1>5 DEF LoseServer, registry
  <2>2. \A t \in Servers : cloud'[t] = IF t = s THEN "lost" ELSE cloud[t]
    BY <1>5, Typed DEF LoseServer, SwapInv
  <2>3. \A t \in Servers : label[t] # None => cloud[t] # "absent"
    BY DEF SwapInv, World
  <2> QED
    BY <2>1, <2>2, <2>3, ProviderKeeps
<1>6. ASSUME NEW t \in Monitored, MonitorNode(t) PROVE Safe'
  <2>1. node'.host = node.host
    BY <1>6, Typed DEF MonitorNode, SwapInv
  <2> QED
    BY <1>6, <2>1, BystanderKeeps DEF MonitorNode, outside
<1> QED
  BY <1>1, <1>2, <1>3, <1>4, <1>5, <1>6 DEF Environment

\* A job is inserted, and a job is cancelled.
LEMMA JobSteps ==
  ASSUME SwapInv, NEW j \in Jobs,
         Cancel(j) \/ \E s \in Servers, forced \in BOOLEAN : Trigger(j, s, forced)
  PROVE  Safe'
<1> DEFINE r == job[j]
<1>1. /\ job \in [Jobs -> JobRow] /\ r \in JobRow /\ RowOK(j, r) /\ IndTypeOK
      /\ UNCHANGED <<dep, vps, cloud, label, master, observed, worker>>
      /\ node'.host = node.host
  BY Typed DEF SwapInv, Rows, Cancel, Trigger, outside
<1>2. ASSUME NEW q, job' = [job EXCEPT ![j] = q], RowOK(j, q), r.cp # "completed",
             q.slot => \A k \in Jobs : k # j => ~job[k].slot,
             \A p \in Workers : ~At(p, "idle") /\ Of(p) = j => Placed(p)' /\ Known(p)'
      PROVE  Safe'
  <2>1. job'[j] = q /\ \A k \in Jobs \ {j} : job'[k] = job[k]
    BY <1>1, <1>2
  <2>2. Rows'
    <3>1. ASSUME NEW k \in Jobs PROVE RowOK(k, job[k])'
      <4>1. CASE k = j
        BY <1>1, <1>2, <2>1, <4>1 DEF RowOK, Bought, Evident
      <4>2. CASE k # j
        <5>1. RowOK(k, job[k]) /\ job'[k] = job[k]
          BY <2>1, <4>2 DEF SwapInv, Rows
        <5> QED
          BY <1>1, <5>1 DEF RowOK, Bought, Evident
      <4> QED
        BY <4>1, <4>2
    <3> QED
      BY <3>1 DEF Rows
  <2>3. World'
    BY <1>1, <1>2, <2>1 DEF SwapInv, World, RegistryAgrees, Bought, Evident
  <2>4. Exclusive'
    BY <1>2, <2>1 DEF SwapInv, Exclusive
  <2>5. ASSUME NEW p \in Workers PROVE Placed(p)' /\ Known(p)'
    <3>1. CASE At(p, "idle")
      BY <1>1, <3>1, RestKnows DEF At
    <3>2. CASE ~At(p, "idle") /\ Of(p) # j
      <4>1. Placed(p) /\ Known(p) /\ Of(p) \in Jobs \ {j} /\ worker'[p] = worker[p]
        BY <1>1, <3>2, Typed DEF SwapInv, Executions, At, Of
      <4>2. JobOf(p)' = JobOf(p) /\ DepOf(p)' = DepOf(p) /\ Of(p)' = Of(p)
        BY <1>1, <2>1, <4>1 DEF JobOf, DepOf, Of
      <4> QED
        BY <1>1, <4>1, <4>2 DEF Placed, Known, GuardPasses, Bought
    <3> QED
      BY <1>2, <3>1, <3>2
  <2> QED
    BY <2>2, <2>3, <2>4, <2>5 DEF Safe, Executions
<1>3. CASE Cancel(j)
  <2> DEFINE q == Moved(r, "cancelled")
  <2>1. job' = [job EXCEPT ![j] = q] /\ r.cp \in Running /\ ~r.masterUpdated
    BY <1>3 DEF Cancel
  <2>2. /\ q.cp = "cancelled" /\ ~q.slot /\ q.old = r.old /\ q.new = r.new
        /\ q.snap = r.snap /\ q.attempt = r.attempt /\ q.ipVerified = r.ipVerified
        /\ q.deployVerified = r.deployVerified /\ q.finalVerified = r.finalVerified
    BY <1>1 DEF JobRow, Moved, Terminal
  <2> HIDE DEF q
  <2>3. RowOK(j, q)
    BY <1>1, <2>2 DEF RowOK, Fetching, Checked, Switchable, Running
  <2>4. ASSUME NEW p \in Workers, ~At(p, "idle"), Of(p) = j PROVE Placed(p)' /\ Known(p)'
    <3>1. Known(p) /\ JobOf(p) = r /\ worker'[p] = worker[p]
      BY <1>1, <2>4 DEF SwapInv, Executions, JobOf, Of
    <3>2. JobOf(p)' = q /\ DepOf(p)' = DepOf(p) /\ Of(p)' = Of(p)
      BY <1>1, <2>1, <2>2, <2>4, <3>1 DEF JobOf, DepOf, Of
    <3>3. worker[p].pc \notin {"old_delete", "finish"}
      BY <2>1, <3>1 DEF Known, GuardPasses
    <3>4. Placed(p)'
      BY <2>2, <3>2 DEF Placed
    <3>5. Known(p)'
      BY <1>1, <2>2, <3>1, <3>2, <3>3 DEF Known, Bought
    <3> QED
      BY <3>4, <3>5
  <2> QED
    BY <1>2, <2>1, <2>2, <2>3, <2>4 DEF Running
<1>4. ASSUME NEW s \in Servers, NEW forced \in BOOLEAN, Trigger(j, s, forced)
      PROVE  Safe'
  <2> DEFINE q == [NoJob EXCEPT !.cp = "created", !.slot = TRUE, !.forced = forced,
                     !.orig = IF forced THEN node.state ELSE "FAILED", !.old = s]
  <2>1. /\ job' = [job EXCEPT ![j] = q] /\ r.cp = "none" /\ vps[s] = "current"
        /\ \A k \in Jobs : ~job[k].slot
    BY <1>4 DEF Trigger, NoActiveJob
  <2>2. /\ q.cp = "created" /\ q.old = s /\ q.new = None /\ q.snap = None
        /\ ~q.ipVerified /\ ~q.deployVerified /\ ~q.finalVerified
    BY DEF NoJob
  <2> HIDE DEF q
  <2>3. s = node.host
    BY <2>1 DEF SwapInv, World, RegistryAgrees
  <2>4. \A a \in 0..MaxAttempts : dep[j][a] = NoDep
    BY <1>1, <2>1 DEF RowOK, Fetching
  <2>5. RowOK(j, q)
    BY <2>2, <2>3, <2>4 DEF RowOK, Running, Checked, Switchable
  <2>6. ASSUME NEW p \in Workers, ~At(p, "idle"), Of(p) = j PROVE FALSE
    BY <1>1, <2>1, <2>6 DEF IndTypeOK, Begun, At, Of
  <2> QED
    BY <1>2, <2>1, <2>5, <2>6
<1> QED
  BY <1>3, <1>4

\* The operator.
LEMMA OperatorSteps ==
  ASSUME SwapInv, Operator
  PROVE  Safe'
<1>1. CASE \E j \in Jobs, s \in Servers, forced \in BOOLEAN : Trigger(j, s, forced)
  BY <1>1, JobSteps
<1>2. CASE \E j \in Jobs : Cancel(j)
  BY <1>2, JobSteps
<1>3. CASE CheckDisable \/ CommitDisable \/ Enable \/ Rename
  <2>1. node'.host = node.host
    BY <1>3, Typed DEF CheckDisable, CommitDisable, Enable, Rename, registry, SwapInv
  <2> QED
    BY <1>3, <2>1, BystanderKeeps
    DEF CheckDisable, CommitDisable, Enable, Rename, registry, outside
<1> QED
  BY <1>1, <1>2, <1>3 DEF Operator

------------------------------------------------------------------------------
(* The invariant.                                                           *)

\* One server is in service at the start, and nothing has been recorded.
LEMMA InitSafe == Init => SwapInv
<1> SUFFICES ASSUME Init PROVE SwapInv
  OBVIOUS
<1>1. IndTypeOK /\ HoldsLease
  BY InitTyped DEF Init, HoldsLease, Asleep, At
<1>2. World
  <2>1. \A s \in Servers : label[s] = None /\ (vps[s] = "current" <=> s = 0)
    BY DEF Init
  <2>2. 0 \in Servers /\ cloud[0] = "live" /\ node.host = 0
    BY <1>1, Typed, ReplacementAssumption DEF Init, Servers
  <2>3. RegistryAgrees
    BY <2>1, <2>2 DEF RegistryAgrees
  <2>4. Evident(master.addr)
    BY DEF Init, Evident
  <2> QED
    BY <2>1, <2>2, <2>3, <2>4 DEF World, Bought
<1>3. Exclusive /\ Rows
  BY DEF Init, Exclusive, Rows, RowOK, NoJob, NoDep, Checked, Switchable
<1>4. Executions
  <2>1. \A p \in Workers : worker[p].pc = "idle"
    BY DEF Init, Asleep
  <2> QED
    BY <2>1 DEF Executions, Placed, Known, Running
<1> QED
  BY <1>1, <1>2, <1>3, <1>4 DEF SwapInv

\* A step of one execution.
LEMMA StepKeeps ==
  ASSUME SwapInv, NEW p \in Workers, Step(p)
  PROVE  Safe'
<1>1. CASE Resuming(p)
  BY <1>1, ResumeSteps, RowStages, LeaseSteps DEF Resuming
<1>2. CASE Provisioning(p)
  BY <1>2, FirstStages, LookupSteps, CreationStep, RecordStep, ReadingStages, CallingSteps,
     DiscardRecords, MovingStages DEF Provisioning
<1>3. CASE Checking(p)
  BY <1>3, ReadingStages, GateStages, MovingStages, DeletionSteps, DiscardRecords
  DEF Checking
<1>4. CASE Deploying(p)
  BY <1>4, DeploymentSteps, DeploymentStarts, CallingSteps, RowStages DEF Deploying
<1>5. CASE Switching(p)
  BY <1>5, ReadingStages, RowStages, MovingStages, MasterSteps, GateStages, CallingSteps
  DEF Switching
<1>6. CASE Cleaning(p)
  BY <1>6, MovingStages, ReadingStages, DeletionSteps, FinishStep DEF Cleaning
<1> QED
  BY <1>1, <1>2, <1>3, <1>4, <1>5, <1>6 DEF Step

\* Every step preserves the invariant.
LEMMA NextKeeps ==
  ASSUME SwapInv, [Next]_vars, "lapse" \notin Faults
  PROVE  SwapInv'
<1>1. IndTypeOK' /\ HoldsLease'
  BY NextTyped, NextHoldsLease DEF SwapInv
<1>2. Safe'
  <2>1. CASE Next
    BY <2>1, StepKeeps, LeaseSteps, OperatorSteps, EnvironmentSteps DEF Next
  <2>2. CASE UNCHANGED vars
    BY <2>2, BystanderKeeps DEF vars
  <2> QED
    BY <2>1, <2>2
<1> QED
  BY <1>1, <1>2 DEF SwapInv, Safe

\* The invariant, as long as no lease runs out under a live holder.
THEOREM SwapInvariant ==
  ASSUME "lapse" \notin Faults
  PROVE  Spec => []SwapInv
<1>1. SwapInv /\ [Next]_vars => SwapInv'
  BY NextKeeps
<1> QED
  BY <1>1, InitSafe, PTL DEF Spec

------------------------------------------------------------------------------
(* What the invariant says of the runs' properties.                         *)

\* The registry names one server in service: current_host is the one row with
\* role CURRENT, which the next trigger takes for the old server (RegistryAgrees).
THEOREM OneServerInService ==
  ASSUME "lapse" \notin Faults
  PROVE  Spec => []RegistryAgrees
<1>1. SwapInv => RegistryAgrees
  BY DEF SwapInv, World
<1> QED
  BY <1>1, SwapInvariant, PTL

\* The Master only ever points at the first server, or at one that passed the
\* address check and has a verified deployment, rollbacks included
\* (MasterTargetProven).
THEOREM MasterPointsAtProven ==
  ASSUME "lapse" \notin Faults
  PROVE  Spec => []MasterTargetProven
<1>1. SwapInv => MasterTargetProven
  BY DEF SwapInv, World, Evident, MasterTargetProven
<1> QED
  BY <1>1, SwapInvariant, PTL

\* Neither the servers nor the Master nor what is known of them changes.
Still == UNCHANGED <<cloud, master, observed, dep>> /\ node'.host = node.host

\* The steps that are not still, and the deletions among them.
Moving(p) ==
  \/ CreateServer(p) \/ ProbeRounds(p) \/ StageIpVerified(p) \/ Deploy(p)
  \/ UpdateMaster(p) \/ FinalProbe(p) \/ Rollback(p) \/ Finish(p)
Deleting(p) == DeleteTemporary(p) \/ DeleteOldVps(p)

\* Which steps change what the abstract specification sees.
LEMMA StillOrNot ==
  ASSUME IndTypeOK, Next
  PROVE  \/ Still
         \/ \E p \in Workers : Moving(p) \/ Deleting(p)
         \/ \E n \in inflight : Settle(n)
         \/ \E s \in Servers : LoseServer(s)
<1>1. node \in [state : NodeState, host : Servers, name : 0..MaxFaults]
  BY Typed
<1>2. ASSUME NEW p \in Workers, Step(p) PROVE Still \/ Moving(p) \/ Deleting(p)
  <2>1. CASE Resuming(p)
    BY <1>1, <2>1 DEF Resuming, Dispatch, Defer, Break, Refused, Raises, FailJob, Release,
       Still, registry, outside
  <2>2. CASE Provisioning(p)
    BY <2>2 DEF Provisioning, StageCreated, StageProvisioning, FindCandidate, RecordServer,
       StageProvisioned, ServerReady, CandidateGone, RecordRunning, BootGrace, Moving, Still,
       registry, outside
  <2>3. CASE Checking(p)
    BY <2>3 DEF Checking, StageCheckingIp, PassIp, RejectIp, StageTempCleanup,
       RecordTempCleanup, Moving, Deleting, Still, registry, outside
  <2>4. CASE Deploying(p)
    BY <1>1, <2>4 DEF Deploying, StageDeploying, Reverify, RecordDeployment, Moving, Still,
       registry, outside
  <2>5. CASE Switching(p)
    BY <2>5 DEF Switching, StageNodeVerified, SnapshotMaster, TestMaster,
       StageMasterUpdating, RecordMasterUpdate, StageMasterUpdated, StageMasterVerifying,
       VerifyMaster, RecordMasterVerified, StageMasterVerified, StageFinalCheck, RecordFinal,
       RollbackVerified, Moving, Still, registry, outside
  <2>6. CASE Cleaning(p)
    BY <2>6 DEF Cleaning, StageFinalVerified, StageOldVpsCleanup, Moving, Deleting, Still,
       registry, outside
  <2> QED
    BY <1>2, <2>1, <2>2, <2>3, <2>4, <2>5, <2>6 DEF Step
<1>3. ASSUME NEW p \in Workers, NEW j \in Jobs, Acquire(p, j) PROVE Still
  BY <1>3 DEF Acquire, Still, registry, outside
<1>4. CASE Operator
  BY <1>1, <1>4 DEF Operator, Trigger, Cancel, CheckDisable, CommitDisable, Enable, Rename,
     Still, registry, outside
<1>5. CASE Environment
  <2>1. ASSUME NEW p \in Workers, Crash(p) \/ Lapse(p) PROVE Still
    BY <2>1 DEF Crash, Lapse, Still, registry, outside
  <2>2. ASSUME NEW j \in Jobs, Expire(j) PROVE Still
    BY <2>2 DEF Expire, Still, registry, outside
  <2>3. ASSUME NEW t \in Monitored, MonitorNode(t) PROVE Still
    BY <1>1, <2>3 DEF MonitorNode, Still, outside
  <2> QED
    BY <1>5, <2>1, <2>2, <2>3 DEF Environment
<1> QED
  BY <1>2, <1>3, <1>4, <1>5 DEF Next

\* A running server is deleted by one of the two deletions only.
LEMMA OnlyDeletionsDelete ==
  ASSUME IndTypeOK, [Next]_vars, NEW s \in Servers, cloud[s] = "live", cloud'[s] = "deleted"
  PROVE  \E p \in Workers : Deleting(p) /\ s = worker[p].srv
<1>1. cloud \in [Servers -> {"absent", "live", "deleted", "lost"}] /\ cloud' # cloud
  BY Typed
<1>2. Next /\ ~Still
  BY <1>1 DEF vars, Still
<1>3. ASSUME NEW p \in Workers, Moving(p) PROVE FALSE
  <2>1. CreateServer(p)
    BY <1>1, <1>3 DEF Moving, ProbeRounds, StageIpVerified, Deploy, UpdateMaster, FinalProbe,
       Rollback, Finish, registry, outside
  <2> QED
    BY <1>1, <2>1 DEF CreateServer, Creates, Fresh
<1>4. ASSUME NEW n \in inflight, Settle(n) PROVE FALSE
  BY <1>1, <1>4 DEF Settle, Creates, Fresh
<1>5. ASSUME NEW t \in Servers, LoseServer(t) PROVE FALSE
  BY <1>1, <1>5 DEF LoseServer
<1>6. ASSUME NEW p \in Workers, Deleting(p) PROVE s = worker[p].srv
  BY <1>1, <1>6 DEF Deleting, DeleteTemporary, DeleteOldVps, Deletes
<1> QED
  BY <1>2, <1>3, <1>4, <1>5, <1>6, StillOrNot

\* What an execution that deletes a candidate has before it.
LEMMA DiscardFacts ==
  ASSUME SwapInv, NEW p \in Workers, DeleteTemporary(p)
  PROVE  LET s == worker[p].srv  j == Of(p) IN
         /\ j \in Jobs /\ s \in Servers /\ s = job[j].new /\ Bought(s, j)
         /\ ~job[j].ipVerified /\ vps[s] # "current"
<1> DEFINE s == worker[p].srv
           j == Of(p)
<1>1. At(p, "temp_delete") /\ ~At(p, "idle")
  BY DEF DeleteTemporary, At
<1>2. j \in Jobs /\ RowOK(j, job[j]) /\ Placed(p) /\ Known(p)
  BY <1>1, Typed DEF SwapInv, Rows, Executions, At, Of
<1>3. s \in Servers /\ s = job[j].new /\ ~job[j].ipVerified /\ job[j].cp # "completed"
  BY <1>1, <1>2 DEF Placed, Known, At, JobOf, Of
<1>4. Bought(s, j)
  BY <1>2, <1>3, NoneNoServer DEF RowOK
<1> QED
  BY <1>2, <1>3, <1>4 DEF SwapInv, World

\* What an execution that deletes the old server, or completes, has before it.
LEMMA RetireFacts ==
  ASSUME SwapInv, NEW p \in Workers, At(p, "old_delete") \/ At(p, "finish")
  PROVE  LET j == Of(p)  r == job[j] IN
         /\ j \in Jobs /\ r.old = node.host /\ r.new \in Servers /\ vps[r.old] = "current"
         /\ Proven(j)
<1> DEFINE j == Of(p)
           r == job[j]
<1>1. j \in Jobs /\ RowOK(j, r) /\ Placed(p) /\ Known(p)
  BY Typed DEF SwapInv, Rows, Executions, At, Of
<1>2. /\ r.slot /\ GuardPasses(r, dep[j][r.attempt]) /\ r.cp = "old_vps_cleanup"
  <2>1. /\ r.slot /\ GuardPasses(r, dep[j][r.attempt])
        /\ r.cp \in {"old_vps_cleanup", "cancelled"}
    BY <1>1 DEF Known, Placed, At, JobOf, DepOf, Of
  <2> QED
    BY <1>1, <2>1 DEF RowOK, Running
<1>3. /\ r.new # None /\ r.new \in Servers /\ r.old = node.host /\ r.attempt \in 0..MaxAttempts
      /\ dep[j][r.attempt] \in Deployment
  <2>1. /\ r.new \in Servers \cup {None} /\ r.attempt \in 0..MaxAttempts
        /\ dep \in [Jobs -> [0..MaxAttempts -> Deployment]]
    BY <1>1, Typed DEF SwapInv
  <2>2. r.new # None /\ r.old = node.host
    BY <1>1, <1>2 DEF RowOK, GuardPasses
  <2> QED
    BY <1>1, <2>1, <2>2
<1>4. dep[j][r.attempt] = [st |-> "succeeded", vps |-> r.new]
  <2>1. \A d \in Deployment : d = [st |-> d.st, vps |-> d.vps]
    BY DEF Deployment
  <2> QED
    BY <1>2, <1>3, <2>1 DEF GuardPasses
<1>5. Proven(j)
  BY <1>1, <1>2, <1>3, <1>4 DEF Proven, RowOK, GuardPasses
<1> QED
  BY <1>1, <1>2, <1>3, <1>5 DEF GuardPasses

\* The workflow deletes the server in service only for a job whose replacement
\* is proven at that moment, although the gates are read a transaction before
\* the delete call (OldVpsDeletedOnlyWhenProven).
THEOREM OldVpsGate ==
  ASSUME "lapse" \notin Faults
  PROVE  Spec => OldVpsDeletedOnlyWhenProven
<1>1. ASSUME SwapInv, [Next]_vars, NEW s \in Servers,
             cloud[s] = "live", cloud'[s] = "deleted", vps[s] = "current"
      PROVE  \E j \in Jobs : job[j].old = s /\ Proven(j)
  <2>1. PICK p \in Workers : Deleting(p) /\ s = worker[p].srv
    BY <1>1, OnlyDeletionsDelete DEF SwapInv
  <2>2. DeleteOldVps(p)
    BY <1>1, <2>1, DiscardFacts DEF Deleting
  <2>3. At(p, "old_delete") /\ worker[p].srv = job[Of(p)].old
    BY <1>1, <2>2 DEF DeleteOldVps, SwapInv, Executions, Known, At, JobOf, Of
  <2> QED
    BY <1>1, <2>1, <2>3, RetireFacts
<1>2. SwapInv /\ [Next]_vars =>
        \A s \in Servers :
          cloud[s] = "live" /\ cloud'[s] = "deleted" /\ vps[s] = "current"
            => \E j \in Jobs : job[j].old = s /\ Proven(j)
  BY <1>1
<1> QED
  BY <1>2, SwapInvariant, PTL DEF Spec, OldVpsDeletedOnlyWhenProven

\* A candidate whose verification has been recorded is never discarded by
\* temporary cleanup, whatever resumes, crashes or repeats
\* (VerifiedNeverDiscarded).
THEOREM VerifiedCandidatesKept ==
  ASSUME "lapse" \notin Faults
  PROVE  Spec => VerifiedNeverDiscarded
<1>1. ASSUME SwapInv, [Next]_vars, NEW s \in Servers, NEW j \in Jobs,
             cloud[s] = "live", cloud'[s] = "deleted", vps[s] = "replacement"
      PROVE  ~(job[j].new = s /\ job[j].ipVerified)
  <2>1. PICK p \in Workers : Deleting(p) /\ s = worker[p].srv
    BY <1>1, OnlyDeletionsDelete DEF SwapInv
  <2>2. DeleteTemporary(p)
    <3>1. ASSUME DeleteOldVps(p) PROVE FALSE
      <4>1. At(p, "old_delete") /\ worker[p].srv = job[Of(p)].old
        BY <1>1, <3>1 DEF DeleteOldVps, SwapInv, Executions, Known, At, JobOf, Of
      <4> QED
        BY <1>1, <2>1, <4>1, RetireFacts
    <3> QED
      BY <2>1, <3>1 DEF Deleting
  <2>3. s = job[Of(p)].new /\ Bought(s, Of(p)) /\ ~job[Of(p)].ipVerified
    BY <1>1, <2>1, <2>2, DiscardFacts
  <2>4. job[j].new = s => Bought(s, j)
    BY <1>1, NoneNoServer DEF SwapInv, Rows, RowOK
  <2> QED
    BY <2>3, <2>4 DEF Bought
<1>2. SwapInv /\ [Next]_vars =>
        \A s \in Servers, j \in Jobs :
          cloud[s] = "live" /\ cloud'[s] = "deleted" /\ vps[s] = "replacement"
            => ~(job[j].new = s /\ job[j].ipVerified)
  BY <1>1
<1> QED
  BY <1>2, SwapInvariant, PTL DEF Spec, VerifiedNeverDiscarded

------------------------------------------------------------------------------
(* The refinement of SafeSwap.                                              *)

Evidence == observed \cup {<<"deploy", s>> : s \in Deployed}

\* Which servers have a verified deployment in a table of deployments.
LEMMA Deployments ==
  ASSUME NEW D, NEW s
  PROVE  s \in {D[d[1]][d[2]].vps : d \in {e \in Jobs \X (0..MaxAttempts) :
                                             D[e[1]][e[2]].st = "succeeded"}}
         <=> \E k \in Jobs, a \in 0..MaxAttempts :
               D[k][a].st = "succeeded" /\ D[k][a].vps = s
<1> DEFINE S == {e \in Jobs \X (0..MaxAttempts) : D[e[1]][e[2]].st = "succeeded"}
           T == {D[d[1]][d[2]].vps : d \in S}
<1>1. ASSUME s \in T
      PROVE  \E k \in Jobs, a \in 0..MaxAttempts : D[k][a].st = "succeeded" /\ D[k][a].vps = s
  <2>1. PICK e \in S : D[e[1]][e[2]].vps = s
    BY <1>1
  <2> QED
    BY <2>1
<1>2. ASSUME NEW k \in Jobs, NEW a \in 0..MaxAttempts,
             D[k][a].st = "succeeded", D[k][a].vps = s
      PROVE  s \in T
  <2>1. <<k, a>> \in S
    BY <1>2
  <2>2. D[<<k, a>>[1]][<<k, a>>[2]].vps = s
    BY <1>2
  <2> QED
    BY <2>1, <2>2
<1> QED
  BY <1>1, <1>2

\* The same of the deployments in this state and in the next.
LEMMA DeployedServers ==
  ASSUME NEW s
  PROVE  /\ s \in Deployed <=> \E k \in Jobs, a \in 0..MaxAttempts :
                                 dep[k][a].st = "succeeded" /\ dep[k][a].vps = s
         /\ s \in Deployed' <=> \E k \in Jobs, a \in 0..MaxAttempts :
                                 dep'[k][a].st = "succeeded" /\ dep'[k][a].vps = s
<1>1. \A D : s \in {D[d[1]][d[2]].vps : d \in {e \in Jobs \X (0..MaxAttempts) :
                                             D[e[1]][e[2]].st = "succeeded"}}
            <=> \E k \in Jobs, a \in 0..MaxAttempts :
                  D[k][a].st = "succeeded" /\ D[k][a].vps = s
  BY Deployments
<1>2. Deployed = {dep[d[1]][d[2]].vps : d \in {e \in Jobs \X (0..MaxAttempts) :
                                             dep[e[1]][e[2]].st = "succeeded"}}
  BY DEF Deployed
<1>3. Deployed' = {dep'[d[1]][d[2]].vps : d \in {e \in Jobs \X (0..MaxAttempts) :
                                             dep'[e[1]][e[2]].st = "succeeded"}}
  BY DEF Deployed
<1> QED
  BY <1>1, <1>2, <1>3, Zenon

\* Evidence, kind by kind.
LEMMA EvidenceKinds ==
  ASSUME IndTypeOK, NEW s
  PROVE  /\ <<"ip", s>> \in Evidence <=> <<"ip", s>> \in observed
         /\ <<"final", s>> \in Evidence <=> <<"final", s>> \in observed
         /\ <<"deploy", s>> \in Evidence <=> s \in Deployed
<1>1. observed \subseteq {"ip", "final"} \X Servers
  BY DEF IndTypeOK, TypeOK, OutsideTyped
<1> QED
  BY <1>1 DEF Evidence

\* The servers that one row's gates speak of have the evidence.
LEMMA RowEvidence ==
  ASSUME SwapInv, NEW j \in Jobs, job[j].deployVerified
  PROVE  /\ job[j].new \in Servers /\ <<"ip", job[j].new>> \in observed
         /\ job[j].new \in Deployed
<1> DEFINE r == job[j]
<1>1. /\ RowOK(j, r) /\ r.attempt \in 0..MaxAttempts /\ r.new \in Servers \cup {None}
  BY Typed DEF SwapInv, Rows
<1>2. /\ dep[j][r.attempt].st = "succeeded" /\ dep[j][r.attempt].vps = r.new
      /\ r.ipVerified
  <2>1. dep[j][r.attempt].st = "succeeded" /\ NoDep.st # "succeeded"
    BY <1>1 DEF RowOK, NoDep
  <2> QED
    BY <1>1, <2>1 DEF RowOK
<1>3. r.new \in Deployed
  BY <1>1, <1>2, DeployedServers
<1> QED
  BY <1>1, <1>2, <1>3 DEF RowOK

\* A proven replacement has all the evidence.
LEMMA ProvenEvidence ==
  ASSUME SwapInv, NEW j \in Jobs, Proven(j)
  PROVE  /\ job[j].new \in Deployed
         /\ {<<"ip", job[j].new>>, <<"final", job[j].new>>} \subseteq observed
<1>1. job[j].attempt \in 0..MaxAttempts
  BY Typed DEF SwapInv
<1>2. dep[j][job[j].attempt].st = "succeeded" /\ dep[j][job[j].attempt].vps = job[j].new
  BY DEF Proven
<1>3. job[j].new \in Deployed
  BY <1>1, <1>2, DeployedServers
<1> QED
  BY <1>3 DEF Proven

\* A server the Master may point at has the evidence, or is the first one.
LEMMA EvidentHas ==
  ASSUME SwapInv, NEW s, Evident(s), s # 0
  PROVE  <<"ip", s>> \in observed /\ s \in Deployed
<1>1. PICK k \in Jobs, a \in 0..MaxAttempts :
        <<"ip", s>> \in observed /\ dep[k][a] = [st |-> "succeeded", vps |-> s]
  BY DEF Evident
<1>2. s \in Deployed
  BY <1>1, DeployedServers
<1> QED
  BY <1>1, <1>2

\* The abstract actions, in the terms of Replacement.
LEMMA Abstract ==
  /\ Swap!swap = <<cloud, node.host, master.addr, Evidence>>
  /\ Swap!swap' = <<cloud', node'.host, master'.addr, Evidence'>>
  /\ \A s \in Servers :
       /\ /\ cloud[s] = "absent" /\ cloud' = [cloud EXCEPT ![s] = "live"]
          /\ node'.host = node.host /\ master'.addr = master.addr /\ Evidence' = Evidence
          => Swap!Next
       /\ /\ s # node.host /\ cloud[s] = "live" /\ cloud' = [cloud EXCEPT ![s] = "lost"]
          /\ node'.host = node.host /\ master'.addr = master.addr /\ Evidence' = Evidence
          => Swap!Next
       /\ /\ s # node.host /\ cloud[s] = "live" /\ <<"deploy", s>> \notin Evidence
          /\ cloud' = [cloud EXCEPT ![s] = "deleted"]
          /\ node'.host = node.host /\ master'.addr = master.addr /\ Evidence' = Evidence
          => Swap!Next
       /\ /\ s = 0 \/ (<<"ip", s>> \in Evidence /\ <<"deploy", s>> \in Evidence)
          /\ master'.addr = s /\ cloud' = cloud /\ node'.host = node.host
          /\ Evidence' = Evidence
          => Swap!Next
       /\ /\ cloud[node.host] # "live" /\ \A k \in {"ip", "deploy", "final"} : <<k, s>> \in Evidence
          /\ node'.host = s /\ cloud' = cloud /\ master'.addr = master.addr
          /\ Evidence' = Evidence
          => Swap!Next
       /\ \A k \in {"ip", "deploy", "final"} :
            /\ cloud[s] = "live" /\ Evidence' = Evidence \cup {<<k, s>>}
            /\ k # "ip" => <<"ip", s>> \in Evidence
            /\ k = "final" => <<"deploy", s>> \in Evidence
            /\ cloud' = cloud /\ node'.host = node.host /\ master'.addr = master.addr
            => Swap!Next
       /\ /\ s # node.host /\ \A k \in {"ip", "deploy", "final"} : <<k, s>> \in Evidence
          /\ cloud[node.host] = "live" /\ cloud' = [cloud EXCEPT ![node.host] = "deleted"]
          /\ node'.host = node.host /\ master'.addr = master.addr /\ Evidence' = Evidence
          => Swap!Next
BY ZenonT(60) DEF Swap!swap, Swap!Next, Swap!Buy, Swap!Vanish, Swap!Discard, Swap!Switch, Swap!Adopt,
   Swap!Establish, Swap!Retire, Swap!Has, Swap!Kinds, Evidence

\* An execution's step that changes what SafeSwap sees.
LEMMA MovingRefines ==
  ASSUME SwapInv, NEW p \in Workers, Moving(p)
  PROVE  [Swap!Next]_(Swap!swap)
<1> DEFINE j == Of(p)
           r == job[j]
           s == worker[p].srv
<1>1. IndTypeOK /\ (~At(p, "idle") => j \in Jobs /\ RowOK(j, r) /\ Placed(p) /\ Known(p))
  BY Typed DEF SwapInv, Rows, Executions, At, Of
<1>2. UNCHANGED <<observed, dep>> => Evidence' = Evidence
  BY DEF Evidence, Deployed
<1>3. cloud' = cloud /\ node'.host = node.host /\ master'.addr = master.addr
        /\ Evidence' = Evidence => UNCHANGED Swap!swap
  BY Abstract
<1>4. CASE CreateServer(p)
  <2>1. UNCHANGED <<observed, dep, node, master>>
    BY <1>4 DEF CreateServer, registry
  <2>2. ASSUME NEW t \in Fresh, Creates(t, worker[p].name) PROVE Swap!Next
    <3>1. t \in Servers /\ cloud[t] = "absent" /\ cloud' = [cloud EXCEPT ![t] = "live"]
      BY <2>2 DEF Fresh, Creates
    <3> QED
      BY <1>2, <2>1, <3>1, Abstract
  <2> QED
    BY <1>2, <1>3, <1>4, <2>1, <2>2 DEF CreateServer
<1>5. CASE ProbeRounds(p)
  <2>1. UNCHANGED <<dep, node, master, cloud>> /\ At(p, "rounds")
    BY <1>5 DEF ProbeRounds, outside
  <2>2. CASE cloud[s] = "live" /\ observed' = observed \cup {<<"ip", s>>}
    <3>1. s \in Servers
      BY <1>1, <2>1 DEF Known, At
    <3>2. Evidence' = Evidence \cup {<<"ip", s>>}
      BY <2>1, <2>2 DEF Evidence, Deployed
    <3> QED
      BY <2>1, <2>2, <3>1, <3>2, Abstract
  <2> QED
    BY <1>2, <1>3, <1>5, <2>1, <2>2 DEF ProbeRounds
<1>6. CASE FinalProbe(p)
  <2>1. UNCHANGED <<dep, node, master, cloud>> /\ At(p, "final_probe")
    BY <1>6 DEF FinalProbe, registry, outside
  <2>2. CASE cloud[s] = "live" /\ observed' = observed \cup {<<"final", s>>}
    <3>1. s = r.new /\ r.deployVerified /\ j \in Jobs
      BY <1>1, <2>1 DEF Known, At, JobOf, Of
    <3>2. s \in Servers /\ <<"ip", s>> \in Evidence /\ <<"deploy", s>> \in Evidence
      BY <1>1, <3>1, RowEvidence, EvidenceKinds
    <3>3. Evidence' = Evidence \cup {<<"final", s>>}
      BY <2>1, <2>2 DEF Evidence, Deployed
    <3> QED
      BY <2>1, <2>2, <3>2, <3>3, Abstract
  <2> QED
    BY <1>2, <1>3, <1>6, <2>1, <2>2 DEF FinalProbe, registry
<1>7. CASE UpdateMaster(p) \/ Rollback(p)
  <2>1. /\ UNCHANGED <<observed, dep, node, cloud>>
        /\ At(p, "master_put") \/ At(p, "rollback")
    BY <1>7 DEF UpdateMaster, Rollback, registry
  <2>2. master'.addr \in Servers /\ Evident(master'.addr)
    <3>1. IndTypeOK'
      BY <1>1, <1>7, NextTyped DEF Moving, Next, Step, Switching
    <3> QED
      BY <1>7, <3>1, MasterEvidence DEF IndTypeOK, TypeOK, OutsideTyped
  <2>3. \/ master'.addr = 0
        \/ <<"ip", master'.addr>> \in Evidence /\ <<"deploy", master'.addr>> \in Evidence
    BY <1>1, <2>2, EvidentHas, EvidenceKinds
  <2> QED
    BY <1>2, <2>1, <2>2, <2>3, Abstract
<1>8. CASE Finish(p)
  <2>1. /\ UNCHANGED <<observed, dep, cloud, master>> /\ At(p, "finish")
        /\ node' = [node EXCEPT !.state = "HEALTHY", !.host = r.new]
    BY <1>8 DEF Finish, outside, JobOf, Of
  <2>2. r.old = node.host /\ Proven(j) /\ r.new \in Servers /\ r.attempt \in 0..MaxAttempts
    BY <1>1, <2>1, RetireFacts, Typed DEF At
  <2>3. cloud[node.host] # "live" /\ node'.host = r.new
    BY <1>1, <2>1, <2>2, Typed DEF Known, At, JobOf, Of
  <2>4. r.new \in Deployed /\ {<<"ip", r.new>>, <<"final", r.new>>} \subseteq observed
    BY <1>1, <2>1, <2>2, ProvenEvidence DEF At
  <2>5. \A k \in {"ip", "deploy", "final"} : <<k, r.new>> \in Evidence
    BY <1>1, <2>4, EvidenceKinds
  <2> QED
    BY <1>2, <2>1, <2>2, <2>3, <2>5, Abstract
<1>9. CASE StageIpVerified(p)
  <2>1. /\ UNCHANGED <<observed, cloud, master>> /\ node'.host = node.host /\ At(p, "ip_verified")
        /\ dep' = [dep EXCEPT ![j][r.attempt] =
                     IF @ = NoDep THEN [st |-> "pending", vps |-> r.new] ELSE @]
    BY <1>1, <1>9, Typed DEF StageIpVerified, outside, JobOf, Of
  <2>2. j \in Jobs /\ dep \in [Jobs -> [0..MaxAttempts -> Deployment]]
    BY <1>1, <2>1, Typed DEF At
  <2>3. \A k \in Jobs, a \in 0..MaxAttempts :
          /\ dep'[k][a].st = "succeeded" <=> dep[k][a].st = "succeeded"
          /\ dep[k][a].st = "succeeded" => dep'[k][a] = dep[k][a]
    BY <2>1, <2>2 DEF NoDep
  <2>4. Deployed' = Deployed
    BY <2>3, DeployedServers
  <2>5. Evidence' = Evidence
    BY <2>1, <2>4 DEF Evidence
  <2> QED
    BY <1>3, <2>1, <2>5
<1>10. CASE Deploy(p)
  <2>1. UNCHANGED <<observed, cloud, master, node>> /\ ~At(p, "idle")
    BY <1>10 DEF Deploy, outside, At
  <2>2. j \in Jobs /\ dep \in [Jobs -> [0..MaxAttempts -> Deployment]] /\ r.attempt \in 0..MaxAttempts
    BY <1>1, <2>1, Typed
  <2>3. CASE UNCHANGED dep
    BY <1>2, <1>3, <2>1, <2>3
  <2>4. ASSUME NEW st \in {"succeeded", "failed"}, DeployEnds(p, st), At(p, "deploy"),
               st = "succeeded" => cloud[s] = "live"
        PROVE  [Swap!Next]_(Swap!swap)
    <3>1. /\ dep[j][r.attempt].st = "pending" /\ s = r.new /\ s \in Servers
      BY <1>1, <2>1, <2>4 DEF Known, At, JobOf, DepOf, Of
    <3>2. r.ipVerified /\ dep[j][r.attempt].vps = s
      <4>1. NoDep.st # "pending"
        BY DEF NoDep
      <4> QED
        BY <1>1, <2>1, <2>2, <3>1, <4>1 DEF RowOK
    <3>3. /\ dep'[j][r.attempt].st = st /\ dep'[j][r.attempt].vps = s
          /\ \A k \in Jobs, a \in 0..MaxAttempts :
               k # j \/ a # r.attempt => dep'[k][a] = dep[k][a]
      <4>1. dep' = [dep EXCEPT ![j][r.attempt].st = st]
        BY <2>4 DEF DeployEnds, JobOf, Of
      <4>2. dep[j][r.attempt] \in Deployment
        BY <2>2
      <4>3. dep'[j][r.attempt] = [dep[j][r.attempt] EXCEPT !.st = st]
        BY <2>2, <4>1
      <4> QED
        BY <2>2, <3>2, <4>1, <4>2, <4>3 DEF Deployment
    <3>4. CASE st = "failed"
      <4>1. \A t : t \in Deployed' <=> t \in Deployed
        BY <2>2, <3>1, <3>3, <3>4, DeployedServers
      <4>2. Deployed' = Deployed
        BY <4>1 DEF Deployed
      <4>3. Evidence' = Evidence
        BY <2>1, <4>2 DEF Evidence
      <4> QED
        BY <1>3, <2>1, <4>3
    <3>5. CASE st = "succeeded"
      <4>1. \A t : t \in Deployed' <=> t \in Deployed \cup {s}
        BY <2>2, <3>1, <3>3, <3>5, DeployedServers
      <4>2. Evidence' = Evidence \cup {<<"deploy", s>>}
        BY <2>1, <4>1 DEF Evidence
      <4>3. <<"ip", s>> \in Evidence
        BY <1>1, <2>1, <3>1, <3>2, EvidenceKinds DEF RowOK
      <4> QED
        BY <2>1, <2>4, <3>1, <3>5, <4>2, <4>3, Abstract
    <3> QED
      BY <3>4, <3>5
  <2> QED
    BY <1>10, <2>3, <2>4 DEF Deploy
<1> QED
  BY <1>4, <1>5, <1>6, <1>7, <1>8, <1>9, <1>10 DEF Moving

\* A deletion.
LEMMA DeletingRefines ==
  ASSUME SwapInv, NEW p \in Workers, Deleting(p)
  PROVE  [Swap!Next]_(Swap!swap)
<1> DEFINE s == worker[p].srv
<1>1. UNCHANGED <<observed, dep, node, master>> /\ IndTypeOK
  BY DEF Deleting, DeleteTemporary, DeleteOldVps, registry, SwapInv
<1>2. Evidence' = Evidence
  BY <1>1 DEF Evidence, Deployed
<1>3. CASE UNCHANGED cloud
  BY <1>1, <1>2, <1>3, Abstract
<1>4. CASE cloud[s] = "live" /\ Deletes(s)
  <2>1. CASE DeleteTemporary(p)
    <3>1. /\ Of(p) \in Jobs /\ s \in Servers /\ Bought(s, Of(p))
          /\ ~job[Of(p)].ipVerified /\ vps[s] # "current"
      BY <2>1, DiscardFacts
    <3>2. s # node.host
      BY <3>1 DEF SwapInv, World, RegistryAgrees
    <3>3. s \notin Deployed
      <4>1. ASSUME NEW k \in Jobs, NEW a \in 0..MaxAttempts,
                   dep[k][a].st = "succeeded", dep[k][a].vps = s
            PROVE  FALSE
        <5>1. RowOK(k, job[k]) /\ dep[k][a] # NoDep
          BY <4>1 DEF SwapInv, Rows, NoDep
        <5>2. job[k].ipVerified /\ job[k].new = s
          BY <4>1, <5>1 DEF RowOK
        <5>3. Bought(s, k)
          BY <5>1, <5>2, <3>1, NoneNoServer DEF RowOK
        <5> QED
          BY <3>1, <5>2, <5>3 DEF Bought
      <4> QED
        BY <4>1, DeployedServers
    <3>4. <<"deploy", s>> \notin Evidence
      BY <1>1, <3>3, EvidenceKinds
    <3> QED
      BY <1>1, <1>2, <1>4, <3>1, <3>2, <3>4, Abstract DEF Deletes
  <2>2. CASE DeleteOldVps(p)
    <3> DEFINE r == job[Of(p)]
    <3>1. At(p, "old_delete") /\ s = r.old
      BY <2>2 DEF DeleteOldVps, SwapInv, Executions, Known, At, JobOf, Of
    <3>2. Of(p) \in Jobs /\ r.old = node.host /\ r.new \in Servers /\ Proven(Of(p))
      BY <3>1, RetireFacts
    <3>3. \A k \in {"ip", "deploy", "final"} : <<k, r.new>> \in Evidence
      BY <1>1, <3>2, ProvenEvidence, EvidenceKinds
    <3>4. r.new # node.host
      BY <3>2 DEF Proven
    <3> QED
      BY <1>1, <1>2, <1>4, <3>1, <3>2, <3>3, <3>4, Abstract DEF Deletes
  <2> QED
    BY <2>1, <2>2 DEF Deleting
<1> QED
  BY <1>3, <1>4 DEF Deleting, DeleteTemporary, DeleteOldVps

\* Every step of the workflow is a step of SafeSwap, or changes nothing it sees.
LEMMA NextRefines ==
  ASSUME SwapInv, [Next]_vars
  PROVE  [Swap!Next]_(Swap!swap)
<1>1. CASE Still \/ UNCHANGED vars
  BY <1>1, Abstract DEF Still, vars, Evidence, Deployed
<1>2. ASSUME NEW n \in inflight, Settle(n) PROVE [Swap!Next]_(Swap!swap)
  <2>1. UNCHANGED <<observed, dep, node, master>>
    BY <1>2 DEF Settle, registry
  <2>2. Evidence' = Evidence
    BY <2>1 DEF Evidence, Deployed
  <2>3. ASSUME NEW t \in Fresh, Creates(t, n) PROVE Swap!Next
    <3>1. t \in Servers /\ cloud[t] = "absent" /\ cloud' = [cloud EXCEPT ![t] = "live"]
      BY <2>3 DEF Fresh, Creates
    <3> QED
      BY <2>1, <2>2, <3>1, Abstract
  <2> QED
    BY <1>2, <2>1, <2>2, <2>3, Abstract DEF Settle
<1>3. ASSUME NEW s \in Servers, LoseServer(s) PROVE [Swap!Next]_(Swap!swap)
  <2>1. UNCHANGED <<observed, dep, node, master>>
    BY <1>3 DEF LoseServer, registry
  <2>2. Evidence' = Evidence
    BY <2>1 DEF Evidence, Deployed
  <2>3. s # node.host
    BY <1>3 DEF LoseServer, SwapInv, World, RegistryAgrees
  <2> QED
    BY <1>3, <2>1, <2>2, <2>3, Abstract DEF LoseServer
<1>4. CASE Next
  BY <1>1, <1>2, <1>3, <1>4, StillOrNot, MovingRefines, DeletingRefines DEF SwapInv
<1> QED
  BY <1>1, <1>4

\* The initial states are initial states of SafeSwap.
LEMMA InitRefines == Init => Swap!Init
<1> SUFFICES ASSUME Init PROVE Swap!Init
  OBVIOUS
<1>1. \A s : s \notin Deployed
  <2>1. \A k \in Jobs, a \in 0..MaxAttempts : dep[k][a].st # "succeeded"
    BY DEF Init, NoDep
  <2> QED
    BY <2>1, DeployedServers
<1>2. observed \cup {<<"deploy", s>> : s \in Deployed} = {}
  BY <1>1 DEF Init
<1>3. node.host = 0 /\ master.addr = 0
  BY DEF Init
<1> QED
  BY <1>2, <1>3 DEF Init, Swap!Init

\* Every behaviour of the workflow is a safe swap: evidence is gathered in order
\* and on running servers, only unverified candidates are discarded, the Master
\* is sent to evidenced servers only, the old server goes last, and the registry
\* adopts a server that has all the evidence (ImplementsSafeSwap).
THEOREM Refinement ==
  ASSUME "lapse" \notin Faults
  PROVE  Spec => ImplementsSafeSwap
<1>1. SwapInv /\ [Next]_vars => [Swap!Next]_(Swap!swap)
  BY NextRefines
<1> QED
  BY <1>1, InitRefines, SwapInvariant, PTL DEF Spec, ImplementsSafeSwap, Swap!Spec

=============================================================================
