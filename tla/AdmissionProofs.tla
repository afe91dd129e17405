-------------------------- MODULE AdmissionProofs --------------------------
(****************************************************************************)
(* Proofs about the admission of jobs, for any number of nodes, slots and   *)
(* confirmations.                                                           *)
(****************************************************************************)
EXTENDS Admission, FiniteSetTheorems, SequenceTheorems, TLAPS

------------------------------------------------------------------------------
(* The inductive invariant.                                                 *)

\* A call knows its node; the worker's is about the head of its list.
Flow ==
  /\ \A c \in Callers : ~CallAt(c, "idle") => call[c].node \in Nodes
  /\ call["worker"].pc \notin Modes
  /\ ~CallAt("worker", "idle") => cycle.pc = "trigger" /\ cycle.todo # <<>>
  /\ cycle.pc = "trigger" => cycle.todo \in Seq(Nodes)
  /\ cycle.pc = "repair" => cycle.todo # <<>> /\ Tail(cycle.todo) \in Seq(Nodes)

\* Who reads or writes in the transaction holds the lock, and the slot it
\* counted is still free when it inserts.
Locked ==
  \A c \in Callers :
    /\ call[c].pc \in {"check", "insert"} => lock = c
    /\ call[c].pc = "insert" => Cardinality(ActiveJobs) < MaxConcurrent

\* No two jobs of one request key.
KeysApart ==
  \A i, j \in JobIds : i # j /\ job[i].key # None => job[i].key # job[j].key

IInv == TypeOK /\ Flow /\ Locked /\ KeysApart /\ WorkflowStateOwned /\ ConcurrencyBounded

------------------------------------------------------------------------------
(* Lemmas about the jobs.                                                   *)

\* The active jobs can be counted.
LEMMA ActiveCounted ==
  ASSUME TypeOK
  PROVE  IsFiniteSet(ActiveJobs) /\ Cardinality(ActiveJobs) \in Nat
<1>1. Len(job) \in Nat
  BY LenProperties DEF TypeOK
<1>2. IsFiniteSet(1..Len(job))
  BY <1>1, FS_Interval
<1> QED
  BY <1>2, FS_Subset, FS_CardinalityType DEF ActiveJobs, JobIds

\* A job's row and its position.
LEMMA JobRows ==
  ASSUME TypeOK
  PROVE  Len(job) \in Nat /\ JobIds \subseteq Nat /\ \A j \in JobIds : job[j] \in JobRow
BY LenProperties, ElementOfSeq DEF TypeOK, JobIds

\* Appending a row.
LEMMA Appended ==
  ASSUME TypeOK, NEW row \in JobRow, job' = Append(job, row)
  PROVE  /\ job' \in Seq(JobRow) /\ Len(job') = Len(job) + 1 /\ job'[Len(job')] = row
         /\ JobIds' = JobIds \cup {Len(job')} /\ Len(job') \notin JobIds
         /\ \A j \in JobIds : job'[j] = job[j]
<1>1. job \in Seq(JobRow) /\ Len(job) \in Nat
  BY JobRows DEF TypeOK
<1>2. /\ job' \in Seq(JobRow) /\ Len(job') = Len(job) + 1 /\ job'[Len(job')] = row
      /\ \A j \in 1..Len(job) : job'[j] = job[j]
  BY <1>1
<1> QED
  BY <1>1, <1>2 DEF JobIds

\* Ending a job.
LEMMA Ended ==
  ASSUME TypeOK, NEW j \in JobIds, NEW st \in {"completed", "failed", "cancelled"},
         job' = [job EXCEPT ![j].st = st]
  PROVE  /\ job' \in Seq(JobRow) /\ JobIds' = JobIds
         /\ job'[j] = [job[j] EXCEPT !.st = st]
         /\ \A i \in JobIds \ {j} : job'[i] = job[i]
         /\ \A i \in JobIds : /\ job'[i].key = job[i].key /\ job'[i].node = job[i].node
                              /\ job'[i].live = job[i].live /\ job'[i].by = job[i].by
         /\ ActiveJobs' = ActiveJobs \ {j}
<1>1. job \in Seq(JobRow) /\ Len(job) \in Nat /\ JobIds = 1..Len(job) /\ job[j] \in JobRow
  BY JobRows DEF TypeOK, JobIds
<1> DEFINE row == [job[j] EXCEPT !.st = st]
<1>2. row \in JobRow /\ row.st = st /\ row.key = job[j].key /\ row.node = job[j].node
      /\ row.live = job[j].live /\ row.by = job[j].by
  BY <1>1 DEF JobRow
<1>3. job' = [job EXCEPT ![j] = row]
  OBVIOUS
<1> HIDE DEF row
<1>4. /\ job' \in Seq(JobRow) /\ Len(job') = Len(job) /\ job'[j] = row
      /\ \A i \in 1..Len(job) : job'[i] = IF i = j THEN row ELSE job[i]
  BY <1>1, <1>2, <1>3, ExceptSeq
<1>5. JobIds' = JobIds
  BY <1>1, <1>4 DEF JobIds
<1>6. ActiveJobs' = ActiveJobs \ {j}
  BY <1>1, <1>2, <1>4, <1>5 DEF ActiveJobs, Active
<1> QED
  BY <1>1, <1>2, <1>4, <1>5, <1>6 DEF row

\* Nothing about the jobs changes with job unchanged.
LEMMA SameJobs ==
  ASSUME UNCHANGED job
  PROVE  /\ JobIds' = JobIds /\ ActiveJobs' = ActiveJobs
         /\ (KeysApart => KeysApart') /\ (ConcurrencyBounded => ConcurrencyBounded')
         /\ (UNCHANGED node /\ WorkflowStateOwned => WorkflowStateOwned')
BY DEF JobIds, ActiveJobs, Active, KeysApart, ConcurrencyBounded, WorkflowStateOwned, ActiveOf

\* A step of one call that writes no row.
LEMMA CallMoves ==
  ASSUME IInv, UNCHANGED <<node, job>>, TypeOK', Flow', NEW c \in Callers,
         \A d \in Callers \ {c} : call'[d] = call[d] /\ (lock = d => lock' = d),
         call'[c].pc \in {"check", "insert"} => lock' = c,
         call'[c].pc = "insert" => Cardinality(ActiveJobs) < MaxConcurrent
  PROVE  IInv'
<1>1. ActiveJobs' = ActiveJobs /\ KeysApart' /\ ConcurrencyBounded' /\ WorkflowStateOwned'
  BY SameJobs DEF IInv
<1>2. Locked'
  BY <1>1 DEF IInv, Locked
<1> QED
  BY <1>1, <1>2 DEF IInv

\* A step outside the calls that writes no job row, and no node row that would
\* bring a node into a workflow state.
LEMMA RowsMove ==
  ASSUME IInv, UNCHANGED <<job, call, lock>>, TypeOK', Flow',
         \A n \in Nodes : node'[n].state \in InWorkflow => node[n].state \in InWorkflow
  PROVE  IInv'
<1>1. ActiveJobs' = ActiveJobs /\ JobIds' = JobIds /\ KeysApart' /\ ConcurrencyBounded'
  BY SameJobs DEF IInv
<1>2. Locked'
  BY <1>1 DEF IInv, Locked
<1>3. WorkflowStateOwned'
  BY <1>1 DEF IInv, WorkflowStateOwned, ActiveOf, Active
<1> QED
  BY <1>1, <1>2, <1>3 DEF IInv

------------------------------------------------------------------------------
(* How a call goes on.                                                      *)

\* An idle call is well formed.
LEMMA Idle == NoCall \in Call /\ NoCall.pc = "idle"
BY DEF NoCall, Call, Monitored

\* A call goes on.
LEMMA ContinuesTyped ==
  ASSUME IInv, NEW c \in Callers, ~CallAt(c, "idle"), NEW r \in Call, Continues(c, r),
         r.node = call[c].node, r.pc \in {"pause", "lock", "check", "insert"}
  PROVE  /\ call' \in [Callers -> Call] /\ call'[c] = r
         /\ \A d \in Callers \ {c} : call'[d] = call[d]
         /\ UNCHANGED <<cycle, exec>> /\ Flow'
<1>1. call \in [Callers -> Call] /\ Flow
  BY DEF IInv, TypeOK
<1>2. /\ call' \in [Callers -> Call] /\ call'[c] = r /\ UNCHANGED <<cycle, exec>>
      /\ \A d \in Callers \ {c} : call'[d] = call[d]
  BY <1>1 DEF Continues
<1>3. "worker" \in Callers /\ r.pc \notin Modes /\ r.pc # "idle"
  BY DEF Callers, Modes
<1> QED
  BY <1>1, <1>2, <1>3 DEF Flow, CallAt

\* A call ends without a job.
LEMMA RejectedTyped ==
  ASSUME IInv, NEW c \in Callers, ~CallAt(c, "idle"), NEW why, Rejected(c, why)
  PROVE  /\ call' \in [Callers -> Call] /\ call'[c] = NoCall /\ call'[c].pc = "idle"
         /\ \A d \in Callers \ {c} : call'[d] = call[d]
         /\ cycle' \in [pc : {"idle", "resume", "trigger", "repair"}, todo : Seq(Nat)]
         /\ UNCHANGED exec /\ Flow'
<1>1. /\ call \in [Callers -> Call] /\ Flow
      /\ cycle \in [pc : {"idle", "resume", "trigger", "repair"}, todo : Seq(Nat)]
  BY DEF IInv, TypeOK
<1>2. /\ call' \in [Callers -> Call] /\ call'[c] = NoCall /\ call'[c].pc = "idle"
      /\ UNCHANGED exec /\ \A d \in Callers \ {c} : call'[d] = call[d]
  BY <1>1, Idle DEF Rejected
<1>3. CASE c = "bot" /\ UNCHANGED cycle
  BY <1>1, <1>2, <1>3 DEF Flow, CallAt, Callers
<1>4. CASE c = "worker" /\ cycle' = [pc |-> "idle", todo |-> <<>>]
  <2>1. /\ cycle' \in [pc : {"idle", "resume", "trigger", "repair"}, todo : Seq(Nat)]
        /\ cycle'.pc = "idle"
    BY <1>4
  <2> QED
    BY <1>1, <1>2, <1>4, <2>1 DEF Flow, CallAt, Callers, Modes
<1>5. CASE c = "worker" /\ cycle' = [cycle EXCEPT !.todo = Tail(@)]
  <2>1. cycle.pc = "trigger" /\ cycle.todo # <<>> /\ cycle.todo \in Seq(Nodes)
    BY <1>1, <1>5 DEF Flow
  <2>2. Tail(cycle.todo) \in Seq(Nodes) /\ Tail(cycle.todo) \in Seq(Nat)
    BY <1>1, <2>1, HeadTailProperties
  <2>3. /\ cycle' \in [pc : {"idle", "resume", "trigger", "repair"}, todo : Seq(Nat)]
        /\ cycle'.pc = "trigger" /\ cycle'.todo = Tail(cycle.todo)
    BY <1>1, <1>5, <2>1, <2>2
  <2> QED
    BY <1>1, <1>2, <1>5, <2>2, <2>3 DEF Flow, CallAt, Callers, Modes
<1> QED
  BY <1>2, <1>3, <1>4, <1>5 DEF Rejected

\* The job the worker has just had accepted goes in front of the nodes its
\* round has left, and the round without it is the same as before.
LEMMA PutInFront ==
  ASSUME NEW e \in Nat, NEW s \in Seq(Nat)
  PROVE  /\ <<e>> \o s \in Seq(Nat) /\ <<e>> \o s # <<>>
         /\ Tail(<<e>> \o s) = s
<1> DEFINE t == <<e>> \o s
<1>1. <<e>> \in Seq(Nat) /\ Len(<<e>>) = 1 /\ <<e>>[1] = e /\ Len(s) \in Nat
  OBVIOUS
<1>2. /\ t \in Seq(Nat) /\ Len(t) = 1 + Len(s)
      /\ \A i \in 1 .. 1 + Len(s) : t[i] = IF i <= 1 THEN <<e>>[i] ELSE s[i - 1]
  BY <1>1, ConcatProperties
<1> HIDE DEF t
<1>3. t # <<>>
  BY <1>1, <1>2
<1>4. /\ Tail(t) \in Seq(Nat) /\ Len(Tail(t)) = Len(t) - 1
      /\ \A i \in 1 .. Len(Tail(t)) : Tail(t)[i] = t[i + 1]
  BY <1>2, <1>3, HeadTailProperties
<1>5. Len(Tail(t)) = Len(s)
  BY <1>1, <1>2, <1>4
<1>6. ASSUME NEW i \in 1 .. Len(s)
      PROVE  Tail(t)[i] = s[i]
  <2>1. Tail(t)[i] = t[i + 1]
    BY <1>4, <1>5
  <2>2. /\ i + 1 \in 1 .. 1 + Len(s) /\ ~(i + 1 <= 1) /\ (i + 1) - 1 = i
    BY <1>1
  <2>3. t[i + 1] = s[(i + 1) - 1]
    BY <1>2, <2>2
  <2> QED
    BY <2>1, <2>2, <2>3
<1>7. Tail(t) = s
  BY <1>4, <1>5, <1>6, SeqEqual
<1> QED
  BY <1>2, <1>3, <1>7 DEF t

\* A call ends with a job.
LEMMA AcceptedTyped ==
  ASSUME IInv, NEW c \in Callers, ~CallAt(c, "idle"), NEW j \in Nat, NEW active \in BOOLEAN,
         Accepted(c, j, active)
  PROVE  /\ call' \in [Callers -> Call] /\ call'[c] = NoCall /\ call'[c].pc = "idle"
         /\ \A d \in Callers \ {c} : call'[d] = call[d]
         /\ cycle' \in [pc : {"idle", "resume", "trigger", "repair"}, todo : Seq(Nat)]
         /\ exec' \subseteq exec \cup {j} /\ Flow'
<1>1. /\ call \in [Callers -> Call] /\ Flow
      /\ cycle \in [pc : {"idle", "resume", "trigger", "repair"}, todo : Seq(Nat)]
  BY DEF IInv, TypeOK
<1>2. /\ call' \in [Callers -> Call] /\ call'[c] = NoCall /\ call'[c].pc = "idle"
      /\ \A d \in Callers \ {c} : call'[d] = call[d]
  BY <1>1, Idle DEF Accepted
<1>3. CASE c = "bot"
  <2>1. UNCHANGED cycle /\ exec' \subseteq exec \cup {j}
    BY <1>3 DEF Accepted
  <2> QED
    BY <1>1, <1>2, <1>3, <2>1 DEF Flow, CallAt, Callers
<1>4. CASE c = "worker"
  <2>1. cycle.pc = "trigger" /\ cycle.todo # <<>> /\ cycle.todo \in Seq(Nodes)
    BY <1>1, <1>4 DEF Flow
  <2>2. Tail(cycle.todo) \in Seq(Nodes) /\ Tail(cycle.todo) \in Seq(Nat)
    BY <1>1, <2>1, HeadTailProperties
  <2> DEFINE todo == <<j>> \o Tail(cycle.todo)
  <2>3. todo \in Seq(Nat) /\ todo # <<>> /\ Tail(todo) = Tail(cycle.todo)
    BY <2>2, PutInFront DEF todo
  <2>4. exec' = exec /\ cycle' = [pc |-> "repair", todo |-> todo]
    BY <1>4 DEF Accepted
  <2>5. /\ cycle' \in [pc : {"idle", "resume", "trigger", "repair"}, todo : Seq(Nat)]
        /\ cycle'.pc = "repair" /\ cycle'.todo = todo
    BY <2>3, <2>4
  <2> HIDE DEF todo
  <2> QED
    BY <1>1, <1>2, <1>4, <2>2, <2>3, <2>4, <2>5 DEF Flow, CallAt, Callers, Modes
<1> QED
  BY <1>3, <1>4 DEF Callers

------------------------------------------------------------------------------
(* trigger().                                                               *)

\* What a call that is under way is.
LEMMA CallRow ==
  ASSUME IInv, NEW c \in Callers
  PROVE  /\ call[c] \in Call /\ lock \in Callers \cup {None} /\ None \notin Callers
         /\ \A l \in {"gates", "pause", "lock", "check", "insert"} :
              CallAt(c, l) => ~CallAt(c, "idle")
BY AdmissionAssumption DEF IInv, TypeOK, CallAt

\* The execution mode is read.
LEMMA InvReadExecutionMode ==
  ASSUME IInv, NEW c \in Callers, ReadExecutionMode(c)
  PROVE  IInv'
<1> DEFINE r == [call[c] EXCEPT !.pc = "pause", !.live = control.live]
<1>1. /\ ~CallAt(c, "idle") /\ Continues(c, r)
      /\ UNCHANGED <<node, job, control, lock, answers, changes>>
  BY CallRow DEF ReadExecutionMode
<1>2. r \in Call /\ r.node = call[c].node /\ r.pc = "pause"
  BY CallRow DEF Call, IInv, TypeOK
<1> HIDE DEF r
<1>3. /\ call' \in [Callers -> Call] /\ call'[c] = r /\ UNCHANGED <<cycle, exec>> /\ Flow'
      /\ \A d \in Callers \ {c} : call'[d] = call[d]
  BY <1>1, <1>2, ContinuesTyped
<1>4. TypeOK'
  BY <1>1, <1>3, SameJobs DEF IInv, TypeOK
<1> QED
  BY <1>1, <1>2, <1>3, <1>4, CallMoves

\* The pause gate.
LEMMA InvAssertNotPaused ==
  ASSUME IInv, NEW c \in Callers, AssertNotPaused(c)
  PROVE  IInv'
<1>1. ~CallAt(c, "idle") /\ UNCHANGED <<node, job, control, lock, answers, changes>>
  BY CallRow DEF AssertNotPaused
<1>2. CASE Rejected(c, "paused")
  <2>1. /\ call' \in [Callers -> Call] /\ call'[c].pc = "idle" /\ UNCHANGED exec /\ Flow'
        /\ \A d \in Callers \ {c} : call'[d] = call[d]
        /\ cycle' \in [pc : {"idle", "resume", "trigger", "repair"}, todo : Seq(Nat)]
    BY <1>1, <1>2, RejectedTyped
  <2>2. TypeOK'
    BY <1>1, <2>1, SameJobs DEF IInv, TypeOK
  <2> QED
    BY <1>1, <2>1, <2>2, CallMoves
<1>3. CASE Continues(c, [call[c] EXCEPT !.pc = "lock"])
  <2> DEFINE r == [call[c] EXCEPT !.pc = "lock"]
  <2>1. r \in Call /\ r.node = call[c].node /\ r.pc = "lock"
    BY CallRow DEF Call
  <2>2. Continues(c, r)
    BY <1>3
  <2> HIDE DEF r
  <2>3. /\ call' \in [Callers -> Call] /\ call'[c] = r /\ UNCHANGED <<cycle, exec>> /\ Flow'
        /\ \A d \in Callers \ {c} : call'[d] = call[d]
    BY <1>1, <2>1, <2>2, ContinuesTyped
  <2>4. TypeOK'
    BY <1>1, <2>3, SameJobs DEF IInv, TypeOK
  <2> QED
    BY <1>1, <2>1, <2>3, <2>4, CallMoves
<1> QED
  BY <1>2, <1>3 DEF AssertNotPaused

\* The lock is taken, or was not free.
LEMMA InvTakeLock ==
  ASSUME IInv, NEW c \in Callers, TakeLock(c)
  PROVE  IInv'
<1>1. ~CallAt(c, "idle") /\ UNCHANGED <<node, job, control, answers, changes>>
  BY CallRow DEF TakeLock
<1>2. CASE Rejected(c, "busy") /\ UNCHANGED lock
  <2>1. /\ call' \in [Callers -> Call] /\ call'[c].pc = "idle" /\ UNCHANGED exec /\ Flow'
        /\ \A d \in Callers \ {c} : call'[d] = call[d]
        /\ cycle' \in [pc : {"idle", "resume", "trigger", "repair"}, todo : Seq(Nat)]
    BY <1>1, <1>2, RejectedTyped
  <2>2. TypeOK'
    BY <1>1, <1>2, <2>1, SameJobs DEF IInv, TypeOK
  <2> QED
    BY <1>1, <1>2, <2>1, <2>2, CallMoves
<1>3. CASE lock = None /\ lock' = c /\ Continues(c, [call[c] EXCEPT !.pc = "check"])
  <2> DEFINE r == [call[c] EXCEPT !.pc = "check"]
  <2>1. r \in Call /\ r.node = call[c].node /\ r.pc = "check"
    BY CallRow DEF Call
  <2>2. Continues(c, r)
    BY <1>3
  <2> HIDE DEF r
  <2>3. /\ call' \in [Callers -> Call] /\ call'[c] = r /\ UNCHANGED <<cycle, exec>> /\ Flow'
        /\ \A d \in Callers \ {c} : call'[d] = call[d]
    BY <1>1, <2>1, <2>2, ContinuesTyped
  <2>4. TypeOK'
    BY <1>1, <1>3, <2>3, SameJobs DEF IInv, TypeOK
  <2>5. \A d \in Callers \ {c} : call'[d] = call[d] /\ (lock = d => lock' = d)
    BY <1>3, <2>3, CallRow
  <2> QED
    BY <1>1, <1>3, <2>1, <2>3, <2>4, <2>5, CallMoves
<1> QED
  BY <1>2, <1>3 DEF TakeLock

\* The reads of the transaction.
LEMMA InvCheck ==
  ASSUME IInv, NEW c \in Callers, Check(c)
  PROVE  IInv'
<1>1. /\ ~CallAt(c, "idle") /\ UNCHANGED <<node, job, control, changes>> /\ lock = c
      /\ call[c] \in Call /\ lock' \in {None, c}
  BY CallRow DEF Check, IInv, Locked, CallAt
<1>2. \A d \in Callers \ {c} : lock # d
  BY <1>1
<1>3. ASSUME NEW j \in Reused(c), Accepted(c, j, Active(j)), answers' = Answered(c, j), lock' = None
      PROVE  IInv'
  <2>1. j \in JobIds /\ j \in Nat
    BY <1>3, JobRows DEF IInv, Reused, ActiveOf
  <2>2. Active(j) \in BOOLEAN
    BY DEF Active
  <2>3. /\ call' \in [Callers -> Call] /\ call'[c].pc = "idle" /\ exec' \subseteq exec \cup {j}
        /\ Flow'
        /\ \A d \in Callers \ {c} : call'[d] = call[d]
        /\ cycle' \in [pc : {"idle", "resume", "trigger", "repair"}, todo : Seq(Nat)]
    BY <1>1, <1>3, <2>1, <2>2, AcceptedTyped
  <2>4. answers' \subseteq Confirmations \X JobIds
    BY <1>1, <1>3, <2>1 DEF Answered, IInv, TypeOK, Call
  <2>5. TypeOK'
    BY <1>1, <2>1, <2>3, <2>4, SameJobs DEF IInv, TypeOK
  <2> QED
    BY <1>1, <1>2, <2>3, <2>5, CallMoves
<1>4. CASE Rejected(c, Refusal(c)) /\ UNCHANGED answers
  <2>1. /\ call' \in [Callers -> Call] /\ call'[c].pc = "idle" /\ UNCHANGED exec /\ Flow'
        /\ \A d \in Callers \ {c} : call'[d] = call[d]
        /\ cycle' \in [pc : {"idle", "resume", "trigger", "repair"}, todo : Seq(Nat)]
    BY <1>1, <1>4, RejectedTyped
  <2>2. TypeOK'
    BY <1>1, <1>4, <2>1, SameJobs DEF IInv, TypeOK
  <2> QED
    BY <1>1, <1>2, <2>1, <2>2, CallMoves
<1>5. CASE /\ Refusal(c) = "none"
           /\ Continues(c, [call[c] EXCEPT !.pc = "insert", !.orig = node[call[c].node].state])
           /\ UNCHANGED <<lock, answers>>
  <2> DEFINE r == [call[c] EXCEPT !.pc = "insert", !.orig = node[call[c].node].state]
  <2>1. /\ node[call[c].node].state \in Monitored
        /\ Cardinality(ActiveJobs) < MaxConcurrent
    <3>1. call[c].key # None => CanForce(node[call[c].node].state)
      BY <1>5 DEF Refusal
    <3>2. call[c].key = None => node[call[c].node].state = "FAILED"
      BY <1>5 DEF Refusal
    <3>3. ~(Cardinality(ActiveJobs) >= MaxConcurrent)
      BY <1>5 DEF Refusal
    <3>4. Cardinality(ActiveJobs) \in Nat /\ MaxConcurrent \in Nat
      BY ActiveCounted, AdmissionAssumption DEF IInv
    <3> QED
      BY <3>1, <3>2, <3>3, <3>4 DEF CanForce, Monitored
  <2>2. r \in Call /\ r.node = call[c].node /\ r.pc = "insert"
    BY <1>1, <2>1 DEF Call
  <2>3. Continues(c, r)
    BY <1>5
  <2> HIDE DEF r
  <2>4. /\ call' \in [Callers -> Call] /\ call'[c] = r /\ UNCHANGED <<cycle, exec>> /\ Flow'
        /\ \A d \in Callers \ {c} : call'[d] = call[d]
    BY <1>1, <2>2, <2>3, ContinuesTyped
  <2>5. TypeOK'
    BY <1>1, <1>5, <2>4, SameJobs DEF IInv, TypeOK
  <2> QED
    BY <1>1, <1>2, <1>5, <2>1, <2>2, <2>4, <2>5, CallMoves
<1> QED
  BY <1>3, <1>4, <1>5 DEF Check

\* One element more.
LEMMA OneMore ==
  ASSUME NEW S, IsFiniteSet(S), NEW x
  PROVE  /\ Cardinality(S) \in Nat /\ Cardinality(S \cup {x}) \in Nat
         /\ Cardinality(S \cup {x}) <= Cardinality(S) + 1
<1>1. Cardinality(S) \in Nat
  BY FS_CardinalityType
<1>2. Cardinality(S \cup {x}) = IF x \in S THEN Cardinality(S) ELSE Cardinality(S) + 1
  BY FS_AddElement
<1> QED
  BY <1>1, <1>2

\* The writes: the slot that was counted is taken, the key is new.
LEMMA InvInsert ==
  ASSUME IInv, NEW c \in Callers, Insert(c)
  PROVE  IInv'
<1> DEFINE n == call[c].node
           row == [node |-> n, st |-> "active", by |-> c, key |-> call[c].key,
                   live |-> call[c].live, orig |-> call[c].orig]
<1>1. /\ ~CallAt(c, "idle") /\ UNCHANGED <<control, changes>> /\ lock = c /\ lock' = None
      /\ call[c] \in Call /\ n \in Nodes /\ Cardinality(ActiveJobs) < MaxConcurrent
  BY CallRow DEF Insert, IInv, Locked, CallAt, Flow
<1>2. row \in JobRow /\ row.key = call[c].key /\ row.node = n /\ row.live = call[c].live
      /\ row.st = "active"
  BY <1>1 DEF JobRow, Call
<1>3. CASE Rejected(c, "not unique") /\ UNCHANGED <<job, node, answers>>
  <2>1. /\ call' \in [Callers -> Call] /\ call'[c].pc = "idle" /\ UNCHANGED exec /\ Flow'
        /\ \A d \in Callers \ {c} : call'[d] = call[d]
        /\ cycle' \in [pc : {"idle", "resume", "trigger", "repair"}, todo : Seq(Nat)]
    BY <1>1, <1>3, RejectedTyped
  <2>2. TypeOK'
    BY <1>1, <1>3, <2>1, SameJobs DEF IInv, TypeOK
  <2>3. \A d \in Callers \ {c} : call'[d] = call[d] /\ (lock = d => lock' = d)
    BY <1>1, <2>1
  <2> QED
    BY <1>3, <2>1, <2>2, <2>3, CallMoves
<1>4. CASE /\ row.key = None \/ \A j \in JobIds : job[j].key # row.key
           /\ job' = Append(job, row)
           /\ node' = IF row.live THEN [node EXCEPT ![n].state = "REPLACING"] ELSE node
           /\ Accepted(c, Len(job'), TRUE) /\ answers' = Answered(c, Len(job'))
  <2> HIDE DEF row
  <2>0. PICK k : k = Len(job')
    OBVIOUS
  <2>1. /\ job' \in Seq(JobRow) /\ job'[k] = row /\ JobIds' = JobIds \cup {k} /\ k \notin JobIds
        /\ \A j \in JobIds : job'[j] = job[j]
        /\ k \in Nat /\ TypeOK
    <3>1. TypeOK /\ row \in JobRow /\ job' = Append(job, row) /\ Len(job) \in Nat
      BY <1>2, <1>4, JobRows DEF IInv
    <3>2. /\ job' \in Seq(JobRow) /\ Len(job') = Len(job) + 1 /\ job'[Len(job')] = row
          /\ JobIds' = JobIds \cup {Len(job')} /\ Len(job') \notin JobIds
          /\ \A j \in JobIds : job'[j] = job[j]
      BY <3>1, Appended
    <3>3. k \in Nat
      BY <2>0, <3>1, <3>2
    <3>4. job' \in Seq(JobRow) /\ job'[k] = row
      BY <2>0, <3>2
    <3>5. JobIds' = JobIds \cup {k} /\ k \notin JobIds
      BY <2>0, <3>2
    <3>6. TypeOK /\ \A j \in JobIds : job'[j] = job[j]
      BY <3>1, <3>2
    <3> QED
      BY <3>3, <3>4, <3>5, <3>6
  <2>2. /\ call' \in [Callers -> Call] /\ call'[c].pc = "idle" /\ exec' \subseteq exec \cup {k}
        /\ Flow'
        /\ \A d \in Callers \ {c} : call'[d] = call[d]
        /\ cycle' \in [pc : {"idle", "resume", "trigger", "repair"}, todo : Seq(Nat)]
    BY <1>1, <1>4, <2>0, <2>1, AcceptedTyped
  <2>3. answers' \subseteq Confirmations \X JobIds'
    BY <1>1, <1>4, <2>0, <2>1 DEF Answered, TypeOK, Call
  <2>4. /\ node' \in [Nodes -> [state : NodeState, mode : Modes, ready : BOOLEAN]]
        /\ \A m \in Nodes : node'[m].state \in InWorkflow =>
             node[m].state \in InWorkflow \/ (m = n /\ row.live)
    <3>1. node \in [Nodes -> [state : NodeState, mode : Modes, ready : BOOLEAN]]
      BY <2>1 DEF TypeOK
    <3>2. CASE node' = node
      BY <3>1, <3>2
    <3>3. CASE row.live /\ node' = [node EXCEPT ![n].state = "REPLACING"]
      <4>1. /\ node' \in [Nodes -> [state : NodeState, mode : Modes, ready : BOOLEAN]]
            /\ \A m \in Nodes \ {n} : node'[m] = node[m]
        BY <1>1, <3>1, <3>3 DEF NodeState, InWorkflow
      <4> QED
        BY <3>3, <4>1
    <3> QED
      BY <1>4, <3>2, <3>3
  <2>5. TypeOK'
    BY <1>1, <2>1, <2>2, <2>3, <2>4 DEF TypeOK
  <2>6. ActiveJobs' = ActiveJobs \cup {k}
    BY <1>2, <2>1 DEF ActiveJobs, Active
  <2>7. Cardinality(ActiveJobs') <= MaxConcurrent
    <3>1. /\ IsFiniteSet(ActiveJobs) /\ Cardinality(ActiveJobs) \in Nat /\ MaxConcurrent \in Nat
      BY ActiveCounted, AdmissionAssumption DEF IInv
    <3>2. /\ Cardinality(ActiveJobs \cup {k}) \in Nat
          /\ Cardinality(ActiveJobs \cup {k}) <= Cardinality(ActiveJobs) + 1
      BY <3>1, OneMore
    <3>3. Cardinality(ActiveJobs') = Cardinality(ActiveJobs \cup {k})
      BY <2>6
    <3> QED
      BY <1>1, <3>1, <3>2, <3>3
  <2>8. Locked'
    BY <1>1, <2>2 DEF IInv, Locked
  <2>9. KeysApart'
    <3>1. row.key = None \/ \A j \in JobIds : job'[j].key # job'[k].key
      BY <1>4, <2>1
    <3>2. \A i, j \in JobIds : i # j /\ job'[i].key # None => job'[i].key # job'[j].key
      BY <2>1 DEF IInv, KeysApart
    <3>3. \A i, j \in JobIds \cup {k} : i # j /\ job'[i].key # None => job'[i].key # job'[j].key
      BY <2>1, <3>1, <3>2
    <3> QED
      BY <2>1, <3>3 DEF KeysApart
  <2>10. WorkflowStateOwned'
    <3>1. ASSUME NEW m \in Nodes, node'[m].state \in InWorkflow
          PROVE  \E j \in JobIds' : job'[j].node = m /\ job'[j].st = "active" /\ job'[j].live
      <4>1. CASE m = n /\ row.live
        BY <1>2, <2>1, <4>1
      <4>2. CASE node[m].state \in InWorkflow
        <5>1. PICK j \in JobIds : job[j].node = m /\ job[j].st = "active" /\ job[j].live
          BY <4>2 DEF IInv, WorkflowStateOwned, ActiveOf, Active
        <5> QED
          BY <2>1, <5>1
      <4> QED
        BY <2>4, <3>1, <4>1, <4>2
    <3> QED
      BY <3>1 DEF WorkflowStateOwned, ActiveOf, Active
  <2> QED
    BY <2>2, <2>5, <2>7, <2>8, <2>9, <2>10 DEF IInv, ConcurrencyBounded
<1> QED
  BY <1>3, <1>4 DEF Insert

\* Every step of trigger().
LEMMA InvTrigger ==
  ASSUME IInv, NEW c \in Callers, Trigger(c)
  PROVE  IInv'
BY InvReadExecutionMode, InvAssertNotPaused, InvTakeLock, InvCheck, InvInsert DEF Trigger

------------------------------------------------------------------------------
(* Jobs end.                                                                *)

\* A job ends; its node leaves the workflow state if the job was not simulated.
LEMMA JobEnds ==
  ASSUME IInv, NEW j \in JobIds, NEW st \in {"completed", "failed", "cancelled"},
         job' = [job EXCEPT ![j].st = st], NEW state \in NodeState \ InWorkflow,
         node' = IF job[j].live THEN [node EXCEPT ![job[j].node].state = state] ELSE node,
         UNCHANGED <<control, lock, call, cycle, answers>>,
         exec' \subseteq exec, changes' \in 0..MaxChanges
  PROVE  IInv'
<1> DEFINE n == job[j].node
<1>1. /\ job' \in Seq(JobRow) /\ JobIds' = JobIds /\ ActiveJobs' = ActiveJobs \ {j}
      /\ \A i \in JobIds \ {j} : job'[i] = job[i]
      /\ \A i \in JobIds : job'[i].key = job[i].key
      /\ job[j] \in JobRow /\ TypeOK
  BY Ended, JobRows DEF IInv
<1>2. /\ node' \in [Nodes -> [state : NodeState, mode : Modes, ready : BOOLEAN]]
      /\ job[j].live => node'[n].state \notin InWorkflow
      /\ \A m \in Nodes : node'[m].state \in InWorkflow => node[m].state \in InWorkflow
  <2>1. /\ node \in [Nodes -> [state : NodeState, mode : Modes, ready : BOOLEAN]]
        /\ n \in Nodes
    BY <1>1 DEF TypeOK, JobRow
  <2>2. CASE ~job[j].live
    BY <2>1, <2>2
  <2>3. CASE job[j].live
    <3>1. node' = [node EXCEPT ![n].state = state]
      BY <2>3
    <3>2. /\ node' \in [Nodes -> [state : NodeState, mode : Modes, ready : BOOLEAN]]
          /\ node'[n].state = state /\ \A m \in Nodes \ {n} : node'[m] = node[m]
      BY <2>1, <3>1
    <3> QED
      BY <3>2
  <2> QED
    BY <2>2, <2>3
<1>3. TypeOK'
  BY <1>1, <1>2 DEF TypeOK
<1>4. Flow' /\ KeysApart'
  BY <1>1 DEF IInv, Flow, KeysApart, CallAt
<1>5. /\ IsFiniteSet(ActiveJobs) /\ Cardinality(ActiveJobs) \in Nat
      /\ Cardinality(ActiveJobs') \in Nat /\ Cardinality(ActiveJobs') <= Cardinality(ActiveJobs)
      /\ MaxConcurrent \in Nat
  BY <1>1, ActiveCounted, FS_Subset, FS_CardinalityType, AdmissionAssumption
<1>6. Locked' /\ ConcurrencyBounded'
  BY <1>5 DEF IInv, Locked, ConcurrencyBounded
<1>7. WorkflowStateOwned'
  <2>1. ASSUME NEW m \in Nodes, node'[m].state \in InWorkflow
        PROVE  \E i \in JobIds' : job'[i].node = m /\ job'[i].st = "active" /\ job'[i].live
    <3>1. PICK i \in JobIds : job[i].node = m /\ job[i].st = "active" /\ job[i].live
      BY <1>2, <2>1 DEF IInv, WorkflowStateOwned, ActiveOf, Active
    <3>2. i # j
      BY <1>2, <2>1, <3>1
    <3> QED
      BY <1>1, <3>1, <3>2
  <2> QED
    BY <2>1 DEF WorkflowStateOwned, ActiveOf, Active
<1> QED
  BY <1>3, <1>4, <1>6, <1>7 DEF IInv

\* The workflow ends a job, or the operator cancels it.
LEMMA InvEndJob ==
  ASSUME IInv, NEW j \in JobIds, EndJob(j) \/ Cancel(j)
  PROVE  IInv'
<1>1. /\ job[j] \in JobRow /\ changes \in 0..MaxChanges /\ MaxChanges \in Nat
      /\ node \in [Nodes -> [state : NodeState, mode : Modes, ready : BOOLEAN]]
  BY JobRows, AdmissionAssumption DEF IInv, TypeOK
<1> DEFINE n == job[j].node
<1>2. /\ n \in Nodes /\ node[n].state \in NodeState /\ job[j].orig \in NodeState \ InWorkflow
      /\ "HEALTHY" \in NodeState \ InWorkflow
  BY <1>1 DEF JobRow, NodeState, InWorkflow, Monitored
<1>3. ASSUME NEW forced \in BOOLEAN, NEW switched \in BOOLEAN
      PROVE  Restored(node[n].state, forced, switched, job[j].orig) \in NodeState \ InWorkflow
  BY <1>2 DEF Restored, NodeState, InWorkflow, Monitored
<1>4. PICK st \in {"completed", "failed", "cancelled"}, state \in NodeState \ InWorkflow :
        /\ job' = [job EXCEPT ![j].st = st]
        /\ node' = IF job[j].live THEN [node EXCEPT ![n].state = state] ELSE node
        /\ UNCHANGED <<control, lock, call, cycle, answers>>
        /\ exec' \subseteq exec /\ (UNCHANGED changes \/ Counted)
  <2>1. CASE Cancel(j)
    <3> DEFINE state == Restored(node[n].state, job[j].key # None, FALSE, job[j].orig)
    <3>1. state \in NodeState \ InWorkflow
      BY <1>3
    <3>2. node' = IF job[j].live THEN [node EXCEPT ![n].state = state] ELSE node
      BY <2>1 DEF Cancel
    <3> QED
      BY <2>1, <3>1, <3>2 DEF Cancel
  <2>2. CASE EndJob(j) /\ job' = [job EXCEPT ![j].st = "completed"]
                       /\ node' = IF job[j].live THEN [node EXCEPT ![n].state = "HEALTHY"] ELSE node
    BY <1>2, <2>2 DEF EndJob
  <2>3. ASSUME EndJob(j), job' = [job EXCEPT ![j].st = "failed"], NEW switched \in BOOLEAN,
               node' = IF job[j].live
                       THEN [node EXCEPT ![n].state =
                               Restored(@, job[j].key # None, switched, job[j].orig)]
                       ELSE node
        PROVE  \E st \in {"completed", "failed", "cancelled"}, state \in NodeState \ InWorkflow :
                 /\ job' = [job EXCEPT ![j].st = st]
                 /\ node' = IF job[j].live THEN [node EXCEPT ![n].state = state] ELSE node
                 /\ UNCHANGED <<control, lock, call, cycle, answers>>
                 /\ exec' \subseteq exec /\ (UNCHANGED changes \/ Counted)
    <3> DEFINE state == Restored(node[n].state, job[j].key # None, switched, job[j].orig)
    <3>1. state \in NodeState \ InWorkflow
      BY <1>3
    <3>2. node' = IF job[j].live THEN [node EXCEPT ![n].state = state] ELSE node
      BY <2>3
    <3> QED
      BY <2>3, <3>1, <3>2 DEF EndJob
  <2> QED
    BY <2>1, <2>2, <2>3 DEF EndJob
<1>5. changes' \in 0..MaxChanges
  BY <1>1, <1>4 DEF Counted
<1> QED
  BY <1>4, <1>5, JobEnds

------------------------------------------------------------------------------
(* Steps that write no job row.                                             *)

\* A counted event stays within its bound.
LEMMA CountedTyped ==
  ASSUME IInv, Counted \/ UNCHANGED changes
  PROVE  changes' \in 0..MaxChanges
BY AdmissionAssumption DEF IInv, TypeOK, Counted

\* A task of the bot begins or is deferred.
LEMMA InvTasks ==
  ASSUME IInv, NEW j \in JobIds, DeferTask(j) \/ ConfirmResume(j)
  PROVE  IInv'
<1>1. /\ UNCHANGED <<node, job, control, lock, call, cycle, answers>>
      /\ exec' \subseteq exec \cup {j}
      /\ changes' \in 0..MaxChanges
  BY CountedTyped DEF DeferTask, ConfirmResume
<1>2. TypeOK'
  BY <1>1, SameJobs DEF IInv, TypeOK
<1>3. Flow'
  BY <1>1 DEF IInv, Flow, CallAt
<1> QED
  BY <1>1, <1>2, <1>3, RowsMove

\* A runtime switch.
LEMMA InvToggle ==
  ASSUME IInv, NEW f \in {"paused", "worker", "live"}, Toggle(f)
  PROVE  IInv'
<1>1. /\ UNCHANGED <<node, job, lock, call, cycle, exec, answers>>
      /\ control' = [control EXCEPT ![f] = ~@] /\ changes' \in 0..MaxChanges
  BY CountedTyped DEF Toggle
<1>2. control' \in [paused : BOOLEAN, worker : BOOLEAN, live : BOOLEAN]
  BY <1>1 DEF IInv, TypeOK
<1>3. TypeOK'
  BY <1>1, <1>2, SameJobs DEF IInv, TypeOK
<1>4. Flow'
  BY <1>1 DEF IInv, Flow, CallAt
<1> QED
  BY <1>1, <1>3, <1>4, RowsMove

\* A node's health, or its readiness.
LEMMA InvNodeChanges ==
  ASSUME IInv, NEW n \in Nodes, Fail(n) \/ Recover(n) \/ SetProviderActive(n)
  PROVE  IInv'
<1>1. /\ UNCHANGED <<job, control, lock, call, cycle, exec, answers>>
      /\ changes' \in 0..MaxChanges
  BY CountedTyped DEF Fail, Recover, SetProviderActive
<1>2. /\ node \in [Nodes -> [state : NodeState, mode : Modes, ready : BOOLEAN]]
      /\ {"FAILED", "HEALTHY"} \subseteq NodeState \ InWorkflow
  BY DEF IInv, TypeOK, NodeState, Monitored, InWorkflow
<1>3. \/ \E state \in {"FAILED", "HEALTHY"} : node' = [node EXCEPT ![n].state = state]
      \/ node' = [node EXCEPT ![n].ready = ~@]
  BY DEF Fail, Recover, SetProviderActive
<1>4. /\ node' \in [Nodes -> [state : NodeState, mode : Modes, ready : BOOLEAN]]
      /\ \A m \in Nodes : node'[m].state \in InWorkflow => node[m].state \in InWorkflow
  <2>1. CASE node' = [node EXCEPT ![n].ready = ~@]
    BY <1>2, <2>1
  <2>2. ASSUME NEW state \in {"FAILED", "HEALTHY"}, node' = [node EXCEPT ![n].state = state]
        PROVE  /\ node' \in [Nodes -> [state : NodeState, mode : Modes, ready : BOOLEAN]]
               /\ \A m \in Nodes : node'[m].state \in InWorkflow => node[m].state \in InWorkflow
    <3>1. /\ node' \in [Nodes -> [state : NodeState, mode : Modes, ready : BOOLEAN]]
          /\ node'[n].state = state /\ \A m \in Nodes \ {n} : node'[m] = node[m]
      BY <1>2, <2>2
    <3> QED
      BY <1>2, <3>1
  <2> QED
    BY <1>3, <2>1, <2>2
<1>5. TypeOK'
  BY <1>1, <1>4, SameJobs DEF IInv, TypeOK
<1>6. Flow'
  BY <1>1 DEF IInv, Flow, CallAt
<1> QED
  BY <1>1, <1>4, <1>5, <1>6, RowsMove

\* The bot starts a trigger() or the change of a mode.
LEMMA InvBotCalls ==
  ASSUME IInv, NEW r \in Call, r.pc \in {"gates"} \cup Modes, r.node \in Nodes,
         BotCalls(r), Counted
  PROVE  IInv'
<1>1. /\ UNCHANGED <<node, job, control, lock, cycle, exec, answers>>
      /\ call' = [call EXCEPT !["bot"] = r] /\ changes' \in 0..MaxChanges
      /\ call \in [Callers -> Call]
  BY CountedTyped DEF BotCalls, IInv, TypeOK
<1>2. /\ call' \in [Callers -> Call] /\ call'["bot"] = r
      /\ \A d \in Callers \ {"bot"} : call'[d] = call[d]
  BY <1>1 DEF Callers
<1>3. TypeOK'
  BY <1>1, <1>2, SameJobs DEF IInv, TypeOK
<1>4. Flow'
  BY <1>1, <1>2 DEF IInv, Flow, CallAt, Callers, Modes
<1>5. r.pc \notin {"check", "insert"} /\ "bot" \in Callers
  BY DEF Modes, Callers
<1> QED
  BY <1>1, <1>2, <1>3, <1>4, <1>5, CallMoves

\* The operator's confirmations.
LEMMA InvConfirmations ==
  ASSUME IInv,
         \/ \E n \in Nodes : ConfirmReplace(n) \/ \E m \in Modes : CheckMode(n, m)
         \/ \E k \in Confirmations : ConfirmForce(k)
  PROVE  IInv'
<1>1. ASSUME NEW n \in Nodes, ConfirmReplace(n) PROVE IInv'
  <2> DEFINE r == [NoCall EXCEPT !.pc = "gates", !.node = n]
  <2>1. r \in Call /\ r.pc = "gates" /\ r.node = n
    BY DEF NoCall, Call, Monitored
  <2>2. BotCalls(r) /\ Counted
    BY <1>1 DEF ConfirmReplace
  <2> HIDE DEF r
  <2> QED
    BY <2>1, <2>2, InvBotCalls
<1>2. ASSUME NEW n \in Nodes, NEW m \in Modes, CheckMode(n, m) PROVE IInv'
  <2> DEFINE r == [NoCall EXCEPT !.pc = m, !.node = n]
  <2>1. r \in Call /\ r.pc = m /\ r.node = n
    BY DEF NoCall, Call, Monitored
  <2>2. BotCalls(r) /\ Counted
    BY <1>2 DEF CheckMode
  <2> HIDE DEF r
  <2> QED
    BY <2>1, <2>2, InvBotCalls
<1>3. ASSUME NEW k \in Confirmations, ConfirmForce(k) PROVE IInv'
  <2> DEFINE r == [NoCall EXCEPT !.pc = "gates", !.node = k[2], !.key = k]
  <2>1. r \in Call /\ r.pc = "gates" /\ r.node = k[2] /\ k[2] \in Nodes
    BY DEF NoCall, Call, Monitored, Confirmations
  <2>2. BotCalls(r) /\ Counted
    BY <1>3 DEF ConfirmForce
  <2> HIDE DEF r
  <2> QED
    BY <2>1, <2>2, InvBotCalls
<1> QED
  BY <1>1, <1>2, <1>3

\* The mode is written, whatever has begun since it was checked.
LEMMA InvCommitMode ==
  ASSUME IInv, CommitMode
  PROVE  IInv'
<1> DEFINE n == call["bot"].node
           m == call["bot"].pc
           state == IF m = "disabled" THEN "DISABLED"
                    ELSE IF node[n].state = "DISABLED" THEN "UNKNOWN" ELSE node[n].state
<1>1. /\ m \in Modes /\ call' = [call EXCEPT !["bot"] = NoCall]
      /\ UNCHANGED <<job, control, lock, cycle, exec, answers, changes>>
      /\ call \in [Callers -> Call] /\ "bot" \in Callers
      /\ node \in [Nodes -> [state : NodeState, mode : Modes, ready : BOOLEAN]]
  BY DEF CommitMode, IInv, TypeOK, Callers
<1>2. n \in Nodes
  BY <1>1 DEF IInv, Flow, CallAt, Modes
<1>3. node' = [node EXCEPT ![n] = [@ EXCEPT !.mode = m, !.state = state]]
  BY <1>1, <1>2 DEF CommitMode
<1>4. /\ state \in NodeState /\ (state \in InWorkflow => node[n].state \in InWorkflow)
  BY <1>1, <1>2 DEF NodeState, Monitored, InWorkflow
<1> HIDE DEF state, m
<1>5. /\ node' \in [Nodes -> [state : NodeState, mode : Modes, ready : BOOLEAN]]
      /\ node'[n].state = state /\ \A i \in Nodes \ {n} : node'[i] = node[i]
  BY <1>1, <1>2, <1>3, <1>4
<1>6. /\ call' \in [Callers -> Call] /\ call'["bot"].pc = "idle"
      /\ \A d \in Callers \ {"bot"} : call'[d] = call[d]
  BY <1>1, Idle
<1>7. TypeOK'
  BY <1>1, <1>5, <1>6, SameJobs DEF IInv, TypeOK
<1>8. Flow'
  BY <1>1, <1>6 DEF IInv, Flow, CallAt, Callers
<1>9. ActiveJobs' = ActiveJobs /\ JobIds' = JobIds /\ KeysApart' /\ ConcurrencyBounded'
  BY <1>1, SameJobs DEF IInv
<1>10. Locked'
  BY <1>1, <1>6, <1>9 DEF IInv, Locked, Callers
<1>11. WorkflowStateOwned'
  BY <1>1, <1>4, <1>5, <1>9 DEF IInv, WorkflowStateOwned, ActiveOf, Active
<1> QED
  BY <1>7, <1>8, <1>9, <1>10, <1>11 DEF IInv

\* A process dies, and its lock goes with it.
LEMMA InvRestart ==
  ASSUME IInv, NEW c \in Callers, Restart(c)
  PROVE  IInv'
<1>1. /\ UNCHANGED <<node, job, control, answers>> /\ changes' \in 0..MaxChanges
      /\ call' = [call EXCEPT ![c] = NoCall] /\ lock' = IF lock = c THEN None ELSE lock
      /\ \/ c = "bot" /\ exec' = {} /\ UNCHANGED cycle
         \/ c = "worker" /\ cycle' = [pc |-> "idle", todo |-> <<>>] /\ UNCHANGED exec
      /\ call \in [Callers -> Call]
      /\ cycle \in [pc : {"idle", "resume", "trigger", "repair"}, todo : Seq(Nat)]
  BY CountedTyped DEF Restart, IInv, TypeOK
<1>2. /\ call' \in [Callers -> Call] /\ call'[c].pc = "idle"
      /\ \A d \in Callers \ {c} : call'[d] = call[d]
  BY <1>1, Idle
<1>3. cycle' \in [pc : {"idle", "resume", "trigger", "repair"}, todo : Seq(Nat)]
  <2>1. <<>> \in Seq(Nat)
    BY EmptySeq
  <2>2. CASE cycle' = [pc |-> "idle", todo |-> <<>>]
    BY <2>1, <2>2
  <2>3. CASE UNCHANGED cycle
    BY <1>1, <2>3
  <2> QED
    BY <1>1, <2>2, <2>3
<1>4. TypeOK'
  BY <1>1, <1>2, <1>3, SameJobs DEF IInv, TypeOK
<1>5. Flow'
  BY <1>1, <1>2 DEF IInv, Flow, CallAt, Callers, Modes
<1>6. \A d \in Callers \ {c} : call'[d] = call[d] /\ (lock = d => lock' = d)
  BY <1>1, <1>2
<1> QED
  BY <1>1, <1>2, <1>4, <1>5, <1>6, CallMoves

------------------------------------------------------------------------------
(* run_cycle.                                                               *)

\* The cycle goes on with another list.
LEMMA CycleMoves ==
  ASSUME IInv, CallAt("worker", "idle"), NEW pc \in {"idle", "resume", "trigger", "repair"},
         NEW todo \in Seq(Nat), cycle' = [pc |-> pc, todo |-> todo],
         pc = "trigger" => todo \in Seq(Nodes), pc # "repair",
         UNCHANGED <<node, job, control, lock, call, exec, answers>>, changes' \in 0..MaxChanges
  PROVE  IInv'
<1>1. TypeOK'
  BY SameJobs DEF IInv, TypeOK
<1>2. cycle'.pc = pc /\ cycle'.todo = todo
  OBVIOUS
<1>3. Flow'
  BY <1>2 DEF IInv, Flow, CallAt
<1> QED
  BY <1>1, <1>3, RowsMove

\* An ordered list of a set of numbers, and a prefix of it.
LEMMA Lists ==
  ASSUME NEW S \in SUBSET Nat, IsFiniteSet(S), NEW s \in Ascending(S)
  PROVE  s \in Seq(S) /\ \A n \in Nat : Prefix(s, n) \in Seq(S)
<1>1. Cardinality(S) \in Nat /\ s \in [1..Cardinality(S) -> S]
  BY FS_CardinalityType DEF Ascending
<1>2. s \in Seq(S)
  BY <1>1, SeqDef
<1>3. ASSUME NEW n \in Nat PROVE Prefix(s, n) \in Seq(S)
  <2>1. Len(s) \in Nat /\ \A i \in 1..Len(s) : s[i] \in S
    BY <1>2, LenProperties, ElementOfSeq
  <2> DEFINE k == IF n < Len(s) THEN n ELSE Len(s)
  <2>2. k \in Int /\ 1 \in Int /\ \A i \in 1..k : s[i] \in S
    BY <2>1
  <2> HIDE DEF k
  <2>3. SubSeq(s, 1, k) \in Seq(S)
    BY <2>2, SubSeqProperties
  <2> QED
    BY <2>3 DEF Prefix, k
<1> QED
  BY <1>2, <1>3

\* Every step of the cycle outside trigger().
LEMMA InvCycle ==
  ASSUME IInv, StartCycle \/ ResumeNext \/ SelectNodes \/ TriggerNext \/ Repair
  PROVE  IInv'
<1>1. /\ Flow /\ TypeOK /\ cycle.todo \in Seq(Nat) /\ <<>> \in Seq(Nat) /\ <<>> \in Seq(Nodes)
      /\ changes \in 0..MaxChanges
  BY EmptySeq DEF IInv, TypeOK
<1>2. cycle.pc # "trigger" => CallAt("worker", "idle")
  BY <1>1 DEF Flow
<1>3. CASE StartCycle
  <2>1. PICK order \in Ascending(ActiveJobs) : cycle' = [pc |-> "resume", todo |-> order]
    BY <1>3 DEF StartCycle, CycleGoto
  <2>2. ActiveJobs \subseteq Nat /\ IsFiniteSet(ActiveJobs)
    BY <1>1, ActiveCounted, JobRows DEF ActiveJobs
  <2>3. order \in Seq(ActiveJobs)
    BY <2>2, Lists
  <2>4. order \in Seq(Nat)
    BY <2>2, <2>3, SeqMonotonic
  <2>5. UNCHANGED <<node, job, control, lock, call, exec, answers>> /\ changes' \in 0..MaxChanges
    BY <1>1, <1>3 DEF StartCycle
  <2>6. CallAt("worker", "idle")
    BY <1>2, <1>3 DEF StartCycle
  <2> QED
    BY <2>1, <2>4, <2>5, <2>6, CycleMoves
<1>4. CASE ResumeNext
  <2>1. cycle.pc = "resume" /\ cycle.todo # <<>> /\ CycleGoto("resume", Tail(cycle.todo))
    BY <1>4 DEF ResumeNext
  <2>2. Tail(cycle.todo) \in Seq(Nat) /\ CallAt("worker", "idle")
    BY <1>1, <1>2, <2>1, HeadTailProperties
  <2>3. UNCHANGED <<node, job, control, lock, call, exec, answers>> /\ changes' \in 0..MaxChanges
    BY <1>4, CountedTyped DEF ResumeNext, Returned, Busy
  <2> QED
    BY <2>1, <2>2, <2>3, CycleMoves DEF CycleGoto
<1>5. CASE SelectNodes
  <2>1. /\ UNCHANGED <<node, job, control, lock, call, exec, answers>>
        /\ changes' \in 0..MaxChanges
        /\ CallAt("worker", "idle")
    BY <1>1, <1>2, <1>5 DEF SelectNodes
  <2>2. CASE CycleGoto("idle", <<>>)
    BY <1>1, <2>1, <2>2, CycleMoves DEF CycleGoto
  <2>3. ASSUME NEW order \in Ascending({n \in Nodes : Eligible(n)}),
               CycleGoto("trigger", Prefix(order, MaxConcurrent))
        PROVE  IInv'
    <3> DEFINE S == {n \in Nodes : Eligible(n)}
    <3>1. S \subseteq Nodes /\ Nodes \subseteq Nat /\ IsFiniteSet(S)
      <4>1. IsFiniteSet(Nodes) /\ Nodes \subseteq Nat
        BY AdmissionAssumption, FS_Interval DEF Nodes
      <4> QED
        BY <4>1, FS_Subset
    <3> HIDE DEF S
    <3>2. order \in Ascending(S)
      BY <2>3 DEF S
    <3>3. Prefix(order, MaxConcurrent) \in Seq(S)
      BY <3>1, <3>2, Lists, AdmissionAssumption
    <3>4. Prefix(order, MaxConcurrent) \in Seq(Nodes)
      BY <3>1, <3>3, SeqMonotonic
    <3>5. Prefix(order, MaxConcurrent) \in Seq(Nat)
      BY <3>1, <3>4, SeqMonotonic
    <3> QED
      BY <2>1, <2>3, <3>4, <3>5, CycleMoves DEF CycleGoto
  <2> QED
    BY <1>5, <2>2, <2>3 DEF SelectNodes
<1>6. CASE TriggerNext
  <2>1. /\ cycle.pc = "trigger" /\ CallAt("worker", "idle") /\ cycle.todo \in Seq(Nodes)
        /\ UNCHANGED <<node, job, control, lock, exec, answers>> /\ changes' \in 0..MaxChanges
    BY <1>1, <1>6 DEF TriggerNext, Flow
  <2>2. CASE CycleGoto("idle", <<>>) /\ UNCHANGED call
    BY <1>1, <2>1, <2>2, CycleMoves DEF CycleGoto
  <2>3. CASE /\ cycle.todo # <<>> /\ UNCHANGED cycle
             /\ call' = [call EXCEPT !["worker"] =
                          [NoCall EXCEPT !.pc = "gates", !.node = Head(cycle.todo)]]
    <3> DEFINE r == [NoCall EXCEPT !.pc = "gates", !.node = Head(cycle.todo)]
    <3>1. Head(cycle.todo) \in Nodes
      BY <2>1, <2>3, HeadTailProperties
    <3>2. r \in Call /\ r.pc = "gates" /\ r.node = Head(cycle.todo)
      BY <3>1 DEF NoCall, Call, Monitored
    <3>3. call' = [call EXCEPT !["worker"] = r] /\ call \in [Callers -> Call]
      BY <1>1, <2>3 DEF TypeOK
    <3> HIDE DEF r
    <3>4. /\ call' \in [Callers -> Call] /\ call'["worker"] = r /\ "worker" \in Callers
          /\ \A d \in Callers \ {"worker"} : call'[d] = call[d]
      BY <3>2, <3>3 DEF Callers
    <3>5. TypeOK'
      BY <1>1, <2>1, <2>3, <3>4, SameJobs DEF TypeOK
    <3>6. Flow'
      BY <1>1, <2>1, <2>3, <3>1, <3>2, <3>4 DEF Flow, CallAt, Callers, Modes
    <3> QED
      BY <2>1, <3>2, <3>4, <3>5, <3>6, CallMoves
  <2> QED
    BY <1>6, <2>2, <2>3 DEF TriggerNext
<1>7. CASE Repair
  <2>1. /\ cycle.pc = "repair" /\ CallAt("worker", "idle") /\ Tail(cycle.todo) \in Seq(Nodes)
        /\ cycle.todo # <<>>
        /\ CycleGoto("trigger", Tail(cycle.todo)) \/ CycleGoto("idle", <<>>)
    BY <1>1, <1>2, <1>7 DEF Repair, Flow
  <2>2. UNCHANGED <<node, job, control, lock, call, exec, answers>> /\ changes' \in 0..MaxChanges
    BY <1>7, CountedTyped DEF Repair, Returned, Busy
  <2>3. Tail(cycle.todo) \in Seq(Nat)
    BY <1>1, <2>1, HeadTailProperties
  <2>4. CASE CycleGoto("trigger", Tail(cycle.todo))
    BY <2>1, <2>2, <2>3, <2>4, CycleMoves DEF CycleGoto
  <2>5. CASE CycleGoto("idle", <<>>)
    BY <1>1, <2>1, <2>2, <2>5, CycleMoves DEF CycleGoto
  <2> QED
    BY <2>1, <2>4, <2>5
<1> QED
  BY <1>3, <1>4, <1>5, <1>6, <1>7

------------------------------------------------------------------------------
(* Theorems.                                                                *)

\* The initial state satisfies the invariant.
LEMMA InitInv == Init => IInv
<1> SUFFICES ASSUME Init PROVE IInv
  OBVIOUS
<1>1. /\ job = <<>> /\ Len(job) = 0 /\ JobIds = {} /\ ActiveJobs = {} /\ job \in Seq(JobRow)
      /\ <<>> \in Seq(Nat)
  BY EmptySeq DEF Init, JobIds, ActiveJobs
<1>2. TypeOK
  <2>1. node \in [Nodes -> [state : NodeState, mode : Modes, ready : BOOLEAN]]
    BY DEF Init, NodeState, Monitored, Modes
  <2>2. /\ call \in [Callers -> Call] /\ lock = None /\ exec = {} /\ answers = {} /\ changes = 0
        /\ control \in [paused : BOOLEAN, worker : BOOLEAN, live : BOOLEAN]
    BY Idle DEF Init
  <2>3. cycle \in [pc : {"idle", "resume", "trigger", "repair"}, todo : Seq(Nat)]
    BY <1>1 DEF Init
  <2> QED
    BY <1>1, <2>1, <2>2, <2>3, AdmissionAssumption DEF TypeOK
<1>3. \A c \in Callers : call[c].pc = "idle"
  BY Idle DEF Init
<1>4. Flow /\ Locked
  BY <1>3 DEF Init, Flow, Locked, CallAt, Modes, Callers
<1>5. KeysApart /\ WorkflowStateOwned
  BY <1>1 DEF Init, KeysApart, WorkflowStateOwned, InWorkflow
<1>6. ConcurrencyBounded
  BY <1>1, FS_EmptySet, AdmissionAssumption DEF ConcurrencyBounded
<1> QED
  BY <1>2, <1>4, <1>5, <1>6 DEF IInv

\* Every step keeps the invariant.
LEMMA InvNext == IInv /\ [Next]_vars => IInv'
<1> SUFFICES ASSUME IInv, [Next]_vars PROVE IInv'
  OBVIOUS
<1>0. "worker" \in Callers /\ "bot" \in Callers
  BY DEF Callers
<1>1. CASE WorkerStep
  BY <1>0, <1>1, InvTrigger, InvCycle DEF WorkerStep
<1>2. CASE BotStep
  BY <1>0, <1>2, InvTrigger, InvCommitMode DEF BotStep
<1>3. CASE Operator
  BY <1>3, InvConfirmations, InvNodeChanges, InvTasks, InvEndJob, InvToggle DEF Operator
<1>4. CASE \E j \in JobIds : EndJob(j) \/ DeferTask(j)
  BY <1>4, InvEndJob, InvTasks
<1>5. CASE \E n \in Nodes : Fail(n) \/ Recover(n)
  BY <1>5, InvNodeChanges
<1>6. CASE \E c \in Callers : Restart(c)
  BY <1>6, InvRestart
<1>7. CASE UNCHANGED vars
  <2>1. UNCHANGED <<node, job, control, lock, call, cycle, exec, answers, changes>>
    BY <1>7 DEF vars
  <2>2. TypeOK' /\ Flow'
    BY <2>1, SameJobs DEF IInv, TypeOK, Flow, CallAt
  <2> QED
    BY <2>1, <2>2, RowsMove
<1> QED
  BY <1>1, <1>2, <1>3, <1>4, <1>5, <1>6, <1>7 DEF Next

\* The invariant holds in every reachable state.
THEOREM Invariance == Spec => []IInv
<1> QED
  BY InitInv, InvNext, PTL DEF Spec

\* The rows, the lock and the calls keep their shape (replacement/orchestrator.py,
\* workers/replacement.py).
THEOREM TypeCorrect == Spec => []TypeOK
<1>1. IInv => TypeOK
  BY DEF IInv
<1> QED
  BY <1>1, Invariance, PTL

\* No more jobs are active than max_concurrent_replacements.
THEOREM Bounded == Spec => []ConcurrencyBounded
<1>1. IInv => ConcurrencyBounded
  BY DEF IInv
<1> QED
  BY <1>1, Invariance, PTL

\* A node in a workflow state has an active job that will take it out of it.
THEOREM Owned == Spec => []WorkflowStateOwned
<1>1. IInv => WorkflowStateOwned
  BY DEF IInv
<1> QED
  BY <1>1, Invariance, PTL

\* Later answers to a confirmation that has its job are that job
\* (docs/FORCE_REPAIR.md).
THEOREM SameAnswers == Spec => ReplayAnswersSameJob
<1> DEFINE Step == \A a \in answers' \ answers, j \in JobIds : job[j].key = a[1] => a[2] = j
<1>1. ASSUME IInv, [Next]_vars PROVE Step
  <2>1. ASSUME NEW c \in Callers, NEW i \in Reused(c), answers' = Answered(c, i) PROVE Step
    <3>1. ASSUME NEW a \in answers' \ answers, NEW j \in JobIds, job[j].key = a[1] PROVE a[2] = j
      <4>1. a = <<call[c].key, i>> /\ call[c].key # None
        BY <2>1, <3>1 DEF Answered
      <4>2. i \in JobIds /\ job[i].key = call[c].key /\ job[j].key = call[c].key
        BY <3>1, <4>1 DEF Reused
      <4>3. i = j
        BY <1>1, <4>1, <4>2 DEF IInv, KeysApart
      <4> QED
        BY <4>1, <4>3
    <3> QED
      BY <3>1
  <2>2. ASSUME NEW c \in Callers, Insert(c) PROVE Step
    <3>1. CASE UNCHANGED answers
      BY <3>1
    <3>2. CASE /\ call[c].key = None \/ \A j \in JobIds : job[j].key # call[c].key
               /\ answers' = Answered(c, Len(job'))
      <4>1. ASSUME NEW a \in answers' \ answers
            PROVE  a[1] = call[c].key /\ call[c].key # None
        BY <3>2 DEF Answered
      <4> QED
        BY <3>2, <4>1
    <3> QED
      BY <2>2, <3>1, <3>2 DEF Insert
  <2>3. ASSUME NEW c \in Callers, Trigger(c) PROVE Step
    <3>1. CASE Insert(c)
      BY <2>2, <3>1
    <3>2. CASE Check(c)
      <4>1. UNCHANGED answers \/ \E i \in Reused(c) : answers' = Answered(c, i)
        BY <3>2 DEF Check
      <4>2. CASE UNCHANGED answers
        BY <4>2
      <4> QED
        BY <2>1, <4>1, <4>2
    <3>3. CASE ReadExecutionMode(c) \/ AssertNotPaused(c) \/ TakeLock(c)
      <4>1. UNCHANGED answers
        BY <3>3 DEF ReadExecutionMode, AssertNotPaused, TakeLock
      <4> QED
        BY <4>1
    <3> QED
      BY <2>3, <3>1, <3>2, <3>3 DEF Trigger
  <2>4. "worker" \in Callers /\ "bot" \in Callers
    BY DEF Callers
  <2>5. CASE UNCHANGED answers
    BY <2>5
  <2>6. CASE WorkerStep
    <3>1. CASE StartCycle \/ ResumeNext \/ SelectNodes \/ TriggerNext \/ Repair
      BY <2>5, <3>1 DEF StartCycle, ResumeNext, SelectNodes, TriggerNext, Repair
    <3> QED
      BY <2>3, <2>4, <2>6, <3>1 DEF WorkerStep
  <2>7. CASE BotStep
    BY <2>3, <2>4, <2>5, <2>7 DEF BotStep, CommitMode
  <2>8. CASE Operator
    BY <2>5, <2>8 DEF Operator, ConfirmReplace, SetProviderActive, CheckMode, ConfirmForce,
       ConfirmResume, Cancel, Toggle, BotCalls
  <2>9. CASE \E j \in JobIds : EndJob(j) \/ DeferTask(j)
    BY <2>5, <2>9 DEF EndJob, DeferTask
  <2>10. CASE (\E n \in Nodes : Fail(n) \/ Recover(n)) \/ \E c \in Callers : Restart(c)
    BY <2>5, <2>10 DEF Fail, Recover, Restart
  <2>11. CASE UNCHANGED vars
    BY <2>5, <2>11 DEF vars
  <2> QED
    BY <1>1, <2>6, <2>7, <2>8, <2>9, <2>10, <2>11 DEF Next
<1> QED
  BY <1>1, Invariance, PTL DEF Spec, ReplayAnswersSameJob

------------------------------------------------------------------------------
(* What the rows say about earlier jobs.                                    *)

\* The nodes the cycle has selected and not yet called trigger() for, or is
\* calling it for.
Rest ==
  CASE cycle.pc = "trigger" -> cycle.todo
    [] cycle.pc = "repair" -> Tail(cycle.todo)
    [] OTHER -> <<>>

LastOf(n, i) == i \in JobsOf(n) /\ \A k \in JobsOf(n) : k <= i

\* The last job of a node is none that the worker must not follow with another,
\* and will not become one.
Settled(n) ==
  \A i \in JobIds : LastOf(n, i) =>
    job[i].by = "bot" \/ ~job[i].live \/ job[i].st = "completed"

Listed ==
  /\ \A n \in Nodes : (\E a \in 1..Len(Rest) : Rest[a] = n) => Settled(n)
  /\ \A a, b \in 1..Len(Rest) : a # b => Rest[a] # Rest[b]

\* A job is inserted behind ended ones of its node only.
LastActive ==
  \A i, j \in JobIds : i < j /\ job[i].node = job[j].node => job[i].st # "active"

\* While a job that is not simulated is active, its node is in a workflow state
\* or disabled, and nobody is about to enable it.
Enabling(n) == call["bot"].pc \in Modes \ {"disabled"} /\ call["bot"].node = n
LiveOwns ==
  \A j \in JobIds, n \in Nodes : job[j].st = "active" /\ job[j].live /\ job[j].node = n =>
    /\ node[n].state \in InWorkflow \cup {"DISABLED"}
    /\ Enabling(n) => node[n].state # "DISABLED"

HeadCalled == ~CallAt("worker", "idle") => call["worker"].node = Head(cycle.todo)

History == Listed /\ LastActive /\ LiveOwns /\ HeadCalled /\ WorkerNeverRepeats

\* The list, when it gets shorter.
Shorter == Rest' = <<>> \/ Rest' = Rest \/ (Rest # <<>> /\ Rest' = Tail(Rest))

\* The list is one of nodes.
LEMMA RestTyped ==
  ASSUME IInv
  PROVE  Rest \in Seq(Nodes) /\ Len(Rest) \in Nat
<1>1. Flow /\ cycle.pc \in {"idle", "resume", "trigger", "repair"}
  BY DEF IInv, TypeOK
<1>2. Rest \in Seq(Nodes)
  <2>1. CASE cycle.pc = "trigger"
    BY <1>1, <2>1 DEF Flow, Rest
  <2>2. CASE cycle.pc = "repair"
    BY <1>1, <2>2 DEF Flow, Rest
  <2>3. CASE cycle.pc \in {"idle", "resume"}
    BY <2>3, EmptySeq DEF Rest
  <2> QED
    BY <1>1, <2>1, <2>2, <2>3
<1> QED
  BY <1>2, LenProperties

\* Entries of the shorter list are entries of the list, each once.
LEMMA ShorterListed ==
  ASSUME IInv, Listed, Shorter
  PROVE  /\ \A a \in 1..Len(Rest') : \E e \in 1..Len(Rest) : Rest'[a] = Rest[e]
         /\ \A a, b \in 1..Len(Rest') : a # b => Rest'[a] # Rest'[b]
<1>1. Rest \in Seq(Nodes) /\ Len(Rest) \in Nat
  BY RestTyped
<1>2. CASE Rest' = <<>>
  <2>1. Len(Rest') = 0
    BY <1>2, EmptySeq
  <2> QED
    BY <2>1
<1>3. CASE Rest' = Rest
  BY <1>3 DEF Listed
<1>4. CASE Rest # <<>> /\ Rest' = Tail(Rest)
  <2>1. /\ Len(Tail(Rest)) = Len(Rest) - 1
        /\ \A i \in 1 .. Len(Tail(Rest)) : Tail(Rest)[i] = Rest[i + 1]
        /\ Len(Tail(Rest)) \in Nat
    BY <1>1, <1>4, HeadTailProperties, LenProperties
  <2>2. \A a \in 1..Len(Rest') : a + 1 \in 1..Len(Rest) /\ Rest'[a] = Rest[a + 1]
    BY <1>1, <1>4, <2>1
  <2>3. ASSUME NEW a \in 1..Len(Rest'), NEW b \in 1..Len(Rest'), a # b PROVE Rest'[a] # Rest'[b]
    <3>1. /\ a + 1 \in 1..Len(Rest) /\ Rest'[a] = Rest[a + 1]
          /\ b + 1 \in 1..Len(Rest) /\ Rest'[b] = Rest[b + 1] /\ a + 1 # b + 1
      BY <2>2, <2>3
    <3> QED
      BY <3>1 DEF Listed
  <2> QED
    BY <2>2, <2>3
<1> QED
  BY <1>2, <1>3, <1>4 DEF Shorter

\* Without a change of the job rows.
LEMMA HistoryKept ==
  ASSUME IInv, History, UNCHANGED job, Shorter, LiveOwns', HeadCalled'
  PROVE  History'
<1>1. JobIds' = JobIds /\ \A n : Settled(n)' <=> Settled(n)
  BY SameJobs DEF Settled, LastOf, JobsOf, JobIds
<1>2. Listed'
  BY <1>1, ShorterListed DEF History, Listed, Settled
<1>3. LastActive' /\ WorkerNeverRepeats'
  BY <1>1 DEF History, LastActive, WorkerNeverRepeats
<1> QED
  BY <1>2, <1>3 DEF History

\* LiveOwns where neither a job nor a node changes and no mode is asked for.
LEMMA LiveOwnsKept ==
  ASSUME LiveOwns, UNCHANGED <<job, node>>,
         call'["bot"].pc \in Modes \ {"disabled"} => call'["bot"] = call["bot"]
  PROVE  LiveOwns'
BY SameJobs DEF LiveOwns, Enabling

\* Nor where no job, call or workflow state changes.
LEMMA LiveOwnsNode ==
  ASSUME LiveOwns, UNCHANGED <<job, call>>, \A j \in JobIds : job[j].node \in Nodes,
         \A n \in Nodes : node'[n].state = node[n].state \/ node[n].state \in Monitored
  PROVE  LiveOwns'
<1>1. JobIds' = JobIds
  BY SameJobs
<1>2. ASSUME NEW j \in JobIds, job[j].st = "active", job[j].live
      PROVE  node'[job[j].node].state = node[job[j].node].state
  BY <1>2 DEF LiveOwns, InWorkflow, Monitored
<1> QED
  BY <1>1, <1>2 DEF LiveOwns, Enabling

\* A call of trigger() goes on, or ends without a new row.
LEMMA ContinuesHistory ==
  ASSUME IInv, History, NEW c \in Callers, NEW r \in Call, Continues(c, r), ~CallAt(c, "idle"),
         r.node = call[c].node, r.pc \in {"pause", "lock", "check", "insert"},
         UNCHANGED <<job, node>>
  PROVE  History'
<1>1. /\ call'[c] = r /\ \A d \in Callers \ {c} : call'[d] = call[d]
      /\ UNCHANGED cycle
  BY ContinuesTyped
<1>2. Shorter
  BY <1>1 DEF Shorter, Rest
<1>3. LiveOwns'
  BY <1>1, LiveOwnsKept DEF History, Modes, Callers
<1>4. HeadCalled'
  BY <1>1 DEF History, HeadCalled, CallAt, Callers
<1> QED
  BY <1>2, <1>3, <1>4, HistoryKept

\* How a call that ends leaves the list.
LEMMA EndsShorter ==
  ASSUME IInv, NEW c \in Callers, ~CallAt(c, "idle"),
         (\E why : Rejected(c, why)) \/ (\E j \in Nat, a \in BOOLEAN : Accepted(c, j, a))
  PROVE  /\ Shorter /\ (c = "worker" => Rest' = <<>> \/ (Rest # <<>> /\ Rest' = Tail(Rest)))
         /\ call'[c].pc = "idle" /\ \A d \in Callers \ {c} : call'[d] = call[d]
         /\ c = "bot" => UNCHANGED cycle
<1>1. /\ call'[c].pc = "idle" /\ \A d \in Callers \ {c} : call'[d] = call[d]
  BY RejectedTyped, AcceptedTyped
<1>2. c = "bot" => UNCHANGED cycle
  BY DEF Rejected, Accepted
<1>3. CASE c = "bot"
  BY <1>1, <1>2, <1>3 DEF Shorter, Rest
<1>4. CASE c = "worker"
  <2>1. cycle.pc = "trigger" /\ cycle.todo # <<>> /\ cycle.todo \in Seq(Nodes)
        /\ cycle.todo \in Seq(Nat) /\ Rest = cycle.todo
        /\ cycle \in [pc : {"idle", "resume", "trigger", "repair"}, todo : Seq(Nat)]
    BY <1>4 DEF IInv, Flow, Rest, TypeOK
  <2>2. CASE cycle' = [pc |-> "idle", todo |-> <<>>]
    BY <1>1, <1>4, <2>2 DEF Shorter, Rest
  <2>3. CASE cycle' = [cycle EXCEPT !.todo = Tail(@)]
    <3>1. cycle'.pc = "trigger" /\ cycle'.todo = Tail(cycle.todo)
      BY <2>1, <2>3
    <3> QED
      BY <1>1, <1>4, <2>1, <3>1 DEF Shorter, Rest
  <2>4. ASSUME NEW j \in Nat, cycle' = [pc |-> "repair", todo |-> <<j>> \o Tail(cycle.todo)]
        PROVE  Rest' = Tail(Rest)
    <3>1. Tail(cycle.todo) \in Seq(Nat)
      BY <2>1, HeadTailProperties
    <3>2. Tail(<<j>> \o Tail(cycle.todo)) = Tail(cycle.todo)
      BY <2>4, <3>1, PutInFront
    <3>3. cycle'.pc = "repair" /\ cycle'.todo = <<j>> \o Tail(cycle.todo)
      BY <2>4
    <3> QED
      BY <2>1, <3>2, <3>3 DEF Rest
  <2>5. \/ cycle' = [pc |-> "idle", todo |-> <<>>] \/ cycle' = [cycle EXCEPT !.todo = Tail(@)]
        \/ \E j \in Nat : cycle' = [pc |-> "repair", todo |-> <<j>> \o Tail(cycle.todo)]
    BY <1>4 DEF Rejected, Accepted
  <2> QED
    BY <1>1, <1>4, <2>1, <2>2, <2>3, <2>4, <2>5 DEF Shorter
<1> QED
  BY <1>3, <1>4 DEF Callers

\* A call that ends without a new row.
LEMMA EndsHistory ==
  ASSUME IInv, History, NEW c \in Callers, ~CallAt(c, "idle"),
         (\E why : Rejected(c, why)) \/ (\E j \in Nat, a \in BOOLEAN : Accepted(c, j, a)),
         UNCHANGED <<job, node>>
  PROVE  History'
<1>1. /\ Shorter /\ call'[c].pc = "idle" /\ \A d \in Callers \ {c} : call'[d] = call[d]
      /\ c = "bot" => UNCHANGED cycle
  BY EndsShorter
<1>2. LiveOwns'
  BY <1>1, LiveOwnsKept DEF History, Modes, Callers
<1>3. HeadCalled'
  BY <1>1 DEF History, HeadCalled, CallAt, Callers
<1> QED
  BY <1>1, <1>2, <1>3, HistoryKept

\* A new row: behind ended ones, and by the worker only behind a settled one.
LEMMA InsertHistory ==
  ASSUME IInv, History, NEW c \in Callers, Insert(c)
  PROVE  History'
<1> DEFINE n == call[c].node
           row == [node |-> n, st |-> "active", by |-> c, key |-> call[c].key,
                   live |-> call[c].live, orig |-> call[c].orig]
<1>1. /\ ~CallAt(c, "idle") /\ call[c] \in Call /\ n \in Nodes
  BY CallRow DEF Insert, IInv, CallAt, Flow
<1>2. row \in JobRow /\ row.by = c /\ row.node = n /\ row.st = "active"
      /\ row.live = call[c].live
  BY <1>1 DEF JobRow, Call
<1>3. CASE Rejected(c, "not unique") /\ UNCHANGED <<job, node>>
  BY <1>1, <1>3, EndsHistory
<1>4. CASE /\ ActiveOf(n) = {} /\ job' = Append(job, row)
           /\ node' = IF row.live THEN [node EXCEPT ![n].state = "REPLACING"] ELSE node
           /\ Accepted(c, Len(job'), TRUE)
  <2> HIDE DEF row
  <2>0. PICK k : k = Len(job')
    OBVIOUS
  <2>1. TypeOK /\ row \in JobRow /\ job' = Append(job, row) /\ Len(job) \in Nat
        /\ JobIds \subseteq Nat
    BY <1>2, <1>4, JobRows DEF IInv
  <2>2. /\ Len(job') = Len(job) + 1 /\ job'[Len(job')] = row
        /\ JobIds' = JobIds \cup {Len(job')} /\ Len(job') \notin JobIds
        /\ \A j \in JobIds : job'[j] = job[j]
    BY <2>1, Appended
  <2>3. k \in Nat /\ \A j \in JobIds : j < k
    BY <2>0, <2>1, <2>2 DEF JobIds
  <2>4. job'[k] = row /\ JobIds' = JobIds \cup {k}
    BY <2>0, <2>2
  <2>5. \A j \in JobIds : job'[j] = job[j]
    BY <2>2
  <2>6. /\ Shorter /\ (c = "worker" => Rest' = <<>> \/ (Rest # <<>> /\ Rest' = Tail(Rest)))
        /\ call'[c].pc = "idle" /\ \A d \in Callers \ {c} : call'[d] = call[d]
        /\ c = "bot" => UNCHANGED cycle
    <3>1. \E j \in Nat, a \in BOOLEAN : Accepted(c, j, a)
      BY <1>4, <2>0, <2>3
    <3> QED
      BY <1>1, <3>1, EndsShorter
  <2>7. \A j \in JobIds : job[j].node = n => job[j].st # "active"
    BY <1>4 DEF ActiveOf, Active
  <2>8. LastActive'
    <3>1. ASSUME NEW i \in JobIds \cup {k}, NEW j \in JobIds \cup {k}, i < j,
                 job'[i].node = job'[j].node
          PROVE  job'[i].st # "active"
      <4>1. i \in JobIds
        BY <2>1, <2>3, <3>1
      <4>2. CASE j = k
        BY <1>2, <2>4, <2>5, <2>7, <3>1, <4>1, <4>2
      <4>3. CASE j \in JobIds
        BY <2>5, <3>1, <4>1, <4>3 DEF History, LastActive
      <4> QED
        BY <4>2, <4>3
    <3> QED
      BY <2>4, <3>1 DEF LastActive
  <2>9. LiveOwns'
    <3>1. ASSUME NEW j \in JobIds \cup {k}, NEW m \in Nodes, job'[j].st = "active", job'[j].live,
                 job'[j].node = m
          PROVE  /\ node'[m].state \in InWorkflow \cup {"DISABLED"}
                 /\ Enabling(m)' => node'[m].state # "DISABLED"
      <4>1. CASE j = k
        <5>1. node' = [node EXCEPT ![n].state = "REPLACING"] /\ m = n
          BY <1>2, <1>4, <2>4, <3>1, <4>1
        <5>2. node'[n].state = "REPLACING"
          BY <1>1, <2>1, <5>1 DEF TypeOK
        <5> QED
          BY <5>1, <5>2 DEF InWorkflow
      <4>2. CASE j \in JobIds
        <5>1. m # n /\ m = job[j].node /\ job[j].st = "active" /\ job[j].live
          BY <2>5, <2>7, <3>1, <4>2
        <5>2. node \in [Nodes -> [state : NodeState, mode : Modes, ready : BOOLEAN]]
          BY <2>1 DEF TypeOK
        <5>3. node'[m] = node[m]
          BY <1>1, <1>4, <5>1, <5>2
        <5>4. Enabling(m)' => Enabling(m)
          BY <2>6 DEF Enabling, Modes, Callers
        <5> QED
          BY <4>2, <5>1, <5>3, <5>4 DEF History, LiveOwns
      <4> QED
        BY <4>1, <4>2
    <3> QED
      BY <2>4, <3>1 DEF LiveOwns
  <2>10. HeadCalled'
    BY <2>6 DEF History, HeadCalled, CallAt, Callers
  <2>11. ASSUME NEW m, Settled(m), m = n => c = "bot"
         PROVE  Settled(m)'
    <3>1. ASSUME NEW i \in JobIds \cup {k}, LastOf(m, i)'
          PROVE  job'[i].by = "bot" \/ ~job'[i].live \/ job'[i].st = "completed"
      <4>1. CASE i = k
        <5>1. job'[k].node = m
          BY <3>1, <4>1 DEF LastOf, JobsOf
        <5> QED
          BY <1>2, <2>4, <2>11, <4>1, <5>1
      <4>2. CASE i \in JobIds
        <5>1. LastOf(m, i)
          BY <2>4, <2>5, <3>1, <4>2 DEF LastOf, JobsOf
        <5> QED
          BY <2>5, <2>11, <4>2, <5>1 DEF Settled
      <4> QED
        BY <4>1, <4>2
    <3> QED
      BY <2>4, <3>1 DEF Settled
  <2>12. c = "worker" => n = Rest[1] /\ Rest # <<>>
    <3>1. ASSUME c = "worker"
          PROVE  Rest = cycle.todo /\ cycle.todo # <<>> /\ n = Head(cycle.todo)
                /\ Rest \in Seq(Nodes)
      BY <1>1, <3>1, RestTyped DEF IInv, Flow, History, HeadCalled, Rest
    <3> QED
      BY <3>1
  <2>13. Listed'
    <3>1. ASSUME NEW m \in Nodes, NEW a \in 1..Len(Rest'), Rest'[a] = m
          PROVE  Settled(m)'
      <4>1. Settled(m)
        BY <2>6, <3>1, ShorterListed DEF History, Listed
      <4>2. ASSUME c = "worker" PROVE m # n
        <5>1. Rest \in Seq(Nodes) /\ Len(Rest) \in Nat /\ n = Rest[1] /\ Rest # <<>>
          BY <2>12, <4>2, RestTyped
        <5>2. Rest' # <<>>
          BY <3>1, EmptySeq
        <5>3. Rest' = Tail(Rest)
          BY <2>6, <4>2, <5>2
        <5>4. a \in Nat /\ a >= 1 /\ a + 1 \in 1..Len(Rest) /\ Rest'[a] = Rest[a + 1]
          BY <3>1, <5>1, <5>3, HeadTailProperties
        <5>5. 1 \in 1..Len(Rest) /\ 1 # a + 1
          BY <5>1, <5>4
        <5> QED
          BY <3>1, <5>1, <5>4, <5>5 DEF History, Listed
      <4>3. c = "worker" \/ c = "bot"
        BY DEF Callers
      <4> QED
        BY <2>11, <4>1, <4>2, <4>3
    <3>2. \A a, b \in 1..Len(Rest') : a # b => Rest'[a] # Rest'[b]
      BY <2>6, ShorterListed DEF History
    <3> QED
      BY <3>1, <3>2 DEF Listed
  <2>14. WorkerNeverRepeats'
    <3>1. ASSUME NEW i \in JobIds \cup {k}, NEW j \in JobIds \cup {k}, i < j,
                 job'[i].node = job'[j].node, job'[i].by = "worker", job'[j].by = "worker",
                 job'[i].live, \A l \in (i + 1)..(j - 1) : job'[l].node # job'[i].node
          PROVE  job'[i].st \notin {"failed", "cancelled"}
      <4>1. i \in JobIds
        BY <2>1, <2>3, <3>1
      <4>2. CASE j \in JobIds
        <5>1. \A l \in (i + 1)..(j - 1) : l \in JobIds
          BY <2>1, <4>1, <4>2 DEF JobIds
        <5> QED
          BY <2>5, <3>1, <4>1, <4>2, <5>1 DEF History, WorkerNeverRepeats
      <4>3. CASE j = k
        <5>1. c = "worker" /\ job[i].node = n
          BY <1>2, <2>4, <2>5, <3>1, <4>1, <4>3
        <5>2. \A l \in JobIds : l > i => job[l].node # n
          <6>1. \A l \in JobIds : l > i => l \in (i + 1)..(k - 1)
            BY <2>1, <2>3, <4>1
          <6> QED
            BY <2>5, <3>1, <4>1, <4>3, <5>1, <6>1
        <5>3. LastOf(n, i)
          BY <2>1, <4>1, <5>1, <5>2 DEF LastOf, JobsOf
        <5>4. Settled(n)
          <6>1. 1 \in 1..Len(Rest) /\ n = Rest[1]
            BY <2>12, <5>1, RestTyped, EmptySeq
          <6> QED
            BY <1>1, <6>1 DEF History, Listed
        <5>5. job[i].st = "completed"
          BY <2>5, <3>1, <4>1, <5>3, <5>4 DEF Settled
        <5> QED
          BY <2>5, <4>1, <5>5
      <4> QED
        BY <4>2, <4>3
    <3> QED
      BY <2>4, <3>1 DEF WorkerNeverRepeats
  <2> QED
    BY <2>8, <2>9, <2>10, <2>13, <2>14 DEF History
<1> QED
  BY <1>3, <1>4 DEF Insert

\* trigger(), step by step.
LEMMA TriggerHistory ==
  ASSUME IInv, History, NEW c \in Callers, Trigger(c)
  PROVE  History'
<1>1. call[c] \in Call /\ JobIds \subseteq Nat
  BY CallRow, JobRows DEF IInv
<1>2. CASE ReadExecutionMode(c)
  <2> DEFINE r == [call[c] EXCEPT !.pc = "pause", !.live = control.live]
  <2>1. r \in Call /\ r.node = call[c].node /\ r.pc = "pause"
    BY <1>1 DEF Call, IInv, TypeOK
  <2>2. Continues(c, r) /\ ~CallAt(c, "idle") /\ UNCHANGED <<job, node>>
    BY <1>2 DEF ReadExecutionMode, CallAt
  <2> HIDE DEF r
  <2> QED
    BY <2>1, <2>2, ContinuesHistory
<1>3. CASE AssertNotPaused(c)
  <2> DEFINE r == [call[c] EXCEPT !.pc = "lock"]
  <2>1. r \in Call /\ r.node = call[c].node /\ r.pc = "lock"
    BY <1>1 DEF Call
  <2>2. /\ Continues(c, r) \/ Rejected(c, "paused")
        /\ ~CallAt(c, "idle") /\ UNCHANGED <<job, node>>
    BY <1>3 DEF AssertNotPaused, CallAt
  <2> HIDE DEF r
  <2> QED
    BY <2>1, <2>2, ContinuesHistory, EndsHistory
<1>4. CASE TakeLock(c)
  <2> DEFINE r == [call[c] EXCEPT !.pc = "check"]
  <2>1. r \in Call /\ r.node = call[c].node /\ r.pc = "check"
    BY <1>1 DEF Call
  <2>2. /\ Continues(c, r) \/ Rejected(c, "busy")
        /\ ~CallAt(c, "idle") /\ UNCHANGED <<job, node>>
    BY <1>4 DEF TakeLock, CallAt
  <2> HIDE DEF r
  <2> QED
    BY <2>1, <2>2, ContinuesHistory, EndsHistory
<1>5. CASE Check(c)
  <2> DEFINE r == [call[c] EXCEPT !.pc = "insert", !.orig = node[call[c].node].state]
  <2>1. ~CallAt(c, "idle") /\ UNCHANGED <<job, node>>
    BY <1>5 DEF Check, CallAt
  <2>2. CASE Reused(c) = {} /\ Refusal(c) = "none" /\ Continues(c, r)
    <3>1. node[call[c].node].state \in Monitored
      <4>1. call[c].key # None => CanForce(node[call[c].node].state)
        BY <2>2 DEF Refusal
      <4>2. call[c].key = None => node[call[c].node].state = "FAILED"
        BY <2>2 DEF Refusal
      <4> QED
        BY <4>1, <4>2 DEF CanForce, Monitored
    <3>2. r \in Call /\ r.node = call[c].node /\ r.pc = "insert"
      BY <1>1, <3>1 DEF Call
    <3> HIDE DEF r
    <3> QED
      BY <2>1, <2>2, <3>2, ContinuesHistory
  <2>3. CASE \E j \in Reused(c) : Accepted(c, j, Active(j))
    <3>1. PICK j \in Reused(c) : Accepted(c, j, Active(j))
      BY <2>3
    <3>2. j \in Nat /\ Active(j) \in BOOLEAN
      BY <1>1, <3>1 DEF Reused, ActiveOf, Active
    <3> QED
      BY <2>1, <3>1, <3>2, EndsHistory
  <2>4. CASE Rejected(c, Refusal(c))
    BY <2>1, <2>4, EndsHistory
  <2> QED
    BY <1>5, <2>2, <2>3, <2>4 DEF Check
<1>6. CASE Insert(c)
  BY <1>6, InsertHistory
<1> QED
  BY <1>2, <1>3, <1>4, <1>5, <1>6 DEF Trigger

\* A job ends: its row was no settled one's that may change, nor an earlier
\* job of its node.
LEMMA EndHistory ==
  ASSUME IInv, History, NEW j \in JobIds, NEW st \in {"completed", "failed", "cancelled"},
         job[j].st = "active", job' = [job EXCEPT ![j].st = st], UNCHANGED <<call, cycle>>,
         \A n \in Nodes : node'[n].state # node[n].state => job[j].live /\ n = job[j].node
  PROVE  History'
<1>1. /\ JobIds' = JobIds /\ JobIds \subseteq Nat /\ job[j].node \in Nodes
      /\ job'[j] = [job[j] EXCEPT !.st = st] /\ job[j] \in JobRow
      /\ \A i \in JobIds \ {j} : job'[i] = job[i]
      /\ \A i \in JobIds : /\ job'[i].node = job[i].node
                           /\ job'[i].live = job[i].live /\ job'[i].by = job[i].by
  BY Ended, JobRows DEF IInv, JobRow
<1>2. job'[j].st = st
  BY <1>1 DEF JobRow
<1> HIDE DEF JobIds
<1>3. Rest' = Rest
  BY DEF Rest
<1>4. ASSUME NEW n, Settled(n) PROVE Settled(n)'
  <2>1. ASSUME NEW i \in JobIds, LastOf(n, i)'
        PROVE  job'[i].by = "bot" \/ ~job'[i].live \/ job'[i].st = "completed"
    <3>1. LastOf(n, i)
      BY <1>1, <2>1 DEF LastOf, JobsOf
    <3>2. job[i].by = "bot" \/ ~job[i].live \/ job[i].st = "completed"
      BY <1>4, <3>1 DEF Settled
    <3>3. CASE i = j
      BY <1>1, <3>2, <3>3
    <3>4. CASE i # j
      BY <1>1, <3>2, <3>4
    <3> QED
      BY <3>3, <3>4
  <2> QED
    BY <1>1, <2>1 DEF Settled
<1>5. Listed'
  BY <1>3, <1>4 DEF History, Listed
<1>6. \A i \in JobIds : job'[i].st = "active" => job[i].st = "active" /\ i # j
  BY <1>1, <1>2
<1>7. LastActive'
  BY <1>1, <1>6 DEF History, LastActive
<1>8. LiveOwns'
  <2>1. ASSUME NEW i \in JobIds, NEW n \in Nodes, job'[i].st = "active", job'[i].live,
               job'[i].node = n
        PROVE  /\ node'[n].state \in InWorkflow \cup {"DISABLED"}
               /\ Enabling(n)' => node'[n].state # "DISABLED"
    <3>1. i # j /\ job[i].st = "active" /\ job[i].live /\ job[i].node = n
      BY <1>1, <1>6, <2>1
    <3>2. n # job[j].node
      BY <1>1, <3>1 DEF History, LastActive
    <3> QED
      BY <3>1, <3>2 DEF History, LiveOwns, Enabling
  <2> QED
    BY <1>1, <2>1 DEF LiveOwns
<1>9. HeadCalled'
  BY DEF History, HeadCalled, CallAt
<1>10. WorkerNeverRepeats'
  <2>1. ASSUME NEW i \in JobIds, NEW k \in JobIds, i < k,
               job'[i].node = job'[k].node, job'[i].by = "worker", job'[k].by = "worker",
               job'[i].live, \A l \in (i + 1)..(k - 1) : job'[l].node # job'[i].node
        PROVE  job'[i].st \notin {"failed", "cancelled"}
    <3>1. i # j
      BY <1>1, <2>1 DEF History, LastActive
    <3>2. \A l \in (i + 1)..(k - 1) : l \in JobIds
      BY <1>1, <2>1, JobRows DEF IInv, JobIds
    <3> QED
      BY <1>1, <2>1, <3>1, <3>2 DEF History, WorkerNeverRepeats
  <2> QED
    BY <1>1, <2>1 DEF WorkerNeverRepeats
<1> QED
  BY <1>5, <1>7, <1>8, <1>9, <1>10 DEF History

\* The workflow ends a job, or the operator cancels it.
LEMMA JobsHistory ==
  ASSUME IInv, History, NEW j \in JobIds, EndJob(j) \/ Cancel(j)
  PROVE  History'
<1>1. job[j].st = "active" /\ UNCHANGED <<call, cycle>>
  BY DEF EndJob, Cancel, Active
<1>2. \E st \in {"completed", "failed", "cancelled"} : job' = [job EXCEPT ![j].st = st]
  BY DEF EndJob, Cancel
<1>3. \/ UNCHANGED node
      \/ job[j].live /\ \E state : node' = [node EXCEPT ![job[j].node].state = state]
  <2>1. CASE ~job[j].live
    BY <2>1 DEF EndJob, Cancel
  <2>2. CASE job[j].live
    <3>1. CASE Cancel(j)
      BY <2>2, <3>1 DEF Cancel
    <3>2. CASE EndJob(j)
      BY <2>2, <3>2 DEF EndJob
    <3> QED
      BY <3>1, <3>2
  <2> QED
    BY <2>1, <2>2 DEF JobRow
<1>4. \A n \in Nodes : node'[n].state # node[n].state => job[j].live /\ n = job[j].node
  <2>1. node \in [Nodes -> [state : NodeState, mode : Modes, ready : BOOLEAN]]
    BY DEF IInv, TypeOK
  <2> QED
    BY <1>3, <2>1
<1> QED
  BY <1>1, <1>2, <1>4, EndHistory

\* Tasks of the bot, the switches, a node's health or readiness.
LEMMA AsideHistory ==
  ASSUME IInv, History,
         \/ \E j \in JobIds : DeferTask(j) \/ ConfirmResume(j)
         \/ \E f \in {"paused", "worker", "live"} : Toggle(f)
         \/ \E n \in Nodes : Fail(n) \/ Recover(n) \/ SetProviderActive(n)
  PROVE  History'
<1>1. UNCHANGED <<job, call, cycle>>
  BY DEF DeferTask, ConfirmResume, Toggle, Fail, Recover, SetProviderActive
<1>2. \A n \in Nodes : node'[n].state = node[n].state \/ node[n].state \in Monitored
  <2>1. node \in [Nodes -> [state : NodeState, mode : Modes, ready : BOOLEAN]]
    BY DEF IInv, TypeOK
  <2>2. CASE UNCHANGED node
    BY <2>2
  <2>3. ASSUME NEW n \in Nodes, Fail(n) \/ Recover(n)
        PROVE  \A i \in Nodes : node'[i].state = node[i].state \/ node[i].state \in Monitored
    BY <2>1, <2>3 DEF Fail, Recover
  <2>4. ASSUME NEW n \in Nodes, SetProviderActive(n)
        PROVE  \A i \in Nodes : node'[i].state = node[i].state \/ node[i].state \in Monitored
    BY <2>1, <2>4 DEF SetProviderActive
  <2> QED
    BY <2>2, <2>3, <2>4 DEF DeferTask, ConfirmResume, Toggle
<1>3. \A j \in JobIds : job[j].node \in Nodes
  BY JobRows DEF IInv, JobRow
<1>4. LiveOwns'
  BY <1>1, <1>2, <1>3, LiveOwnsNode DEF History
<1>5. HeadCalled' /\ Shorter
  BY <1>1 DEF History, HeadCalled, CallAt, Shorter, Rest
<1> QED
  BY <1>1, <1>4, <1>5, HistoryKept

\* The bot starts a call; a mode only for a node without an active job.
LEMMA BotCallsHistory ==
  ASSUME IInv, History, NEW r, BotCalls(r),
         r.pc \in Modes => ActiveOf(r.node) = {}
  PROVE  History'
<1>1. /\ UNCHANGED <<node, job, cycle>> /\ call' = [call EXCEPT !["bot"] = r]
      /\ call \in [Callers -> Call]
  BY DEF BotCalls, IInv, TypeOK
<1>2. call'["bot"] = r /\ call'["worker"] = call["worker"]
  BY <1>1 DEF Callers
<1>3. LiveOwns'
  <2>1. JobIds' = JobIds
    BY <1>1, SameJobs
  <2>2. ASSUME NEW j \in JobIds, job[j].st = "active" PROVE ~Enabling(job[j].node)'
    <3>1. j \in ActiveOf(job[j].node)
      BY <2>2 DEF ActiveOf, Active
    <3> QED
      BY <1>1, <1>2, <3>1 DEF Enabling
  <2> QED
    BY <1>1, <2>1, <2>2 DEF History, LiveOwns
<1>4. HeadCalled' /\ Shorter
  BY <1>1, <1>2 DEF History, HeadCalled, CallAt, Shorter, Rest
<1> QED
  BY <1>1, <1>3, <1>4, HistoryKept

\* The operator's confirmations.
LEMMA ConfirmationsHistory ==
  ASSUME IInv, History,
         \/ \E n \in Nodes : ConfirmReplace(n) \/ \E m \in Modes : CheckMode(n, m)
         \/ \E k \in Confirmations : ConfirmForce(k)
  PROVE  History'
<1>1. ASSUME NEW n \in Nodes, ConfirmReplace(n) PROVE History'
  BY <1>1, BotCallsHistory DEF ConfirmReplace, NoCall, Modes
<1>2. ASSUME NEW n \in Nodes, NEW m \in Modes, CheckMode(n, m) PROVE History'
  <2> DEFINE r == [NoCall EXCEPT !.pc = m, !.node = n]
  <2>1. r.node = n
    BY DEF NoCall
  <2>2. BotCalls(r) /\ ActiveOf(n) = {}
    BY <1>2 DEF CheckMode
  <2> HIDE DEF r
  <2> QED
    BY <2>1, <2>2, BotCallsHistory
<1>3. ASSUME NEW k \in Confirmations, ConfirmForce(k) PROVE History'
  BY <1>3, BotCallsHistory DEF ConfirmForce, NoCall, Modes
<1> QED
  BY <1>1, <1>2, <1>3

\* The mode is written: a node with an active job is not taken out of DISABLED.
LEMMA CommitHistory ==
  ASSUME IInv, History, CommitMode
  PROVE  History'
<1> DEFINE n == call["bot"].node
           m == call["bot"].pc
<1>1. /\ m \in Modes /\ call' = [call EXCEPT !["bot"] = NoCall] /\ UNCHANGED <<job, cycle>>
      /\ call \in [Callers -> Call] /\ "bot" \in Callers
      /\ node \in [Nodes -> [state : NodeState, mode : Modes, ready : BOOLEAN]]
  BY DEF CommitMode, IInv, TypeOK, Callers
<1>2. n \in Nodes
  BY <1>1 DEF IInv, Flow, CallAt, Modes
<1>3. call'["bot"].pc = "idle" /\ call'["worker"] = call["worker"]
  BY <1>1, Idle DEF Callers
<1>4. /\ \A i \in Nodes \ {n} : node'[i] = node[i]
      /\ m = "disabled" => node'[n].state = "DISABLED"
      /\ m # "disabled" /\ node[n].state # "DISABLED" => node'[n].state = node[n].state
  <2>1. node' = [node EXCEPT ![n].mode = m,
          ![n].state = CASE m = "disabled" -> "DISABLED"
                         [] m # "disabled" /\ @ = "DISABLED" -> "UNKNOWN"
                         [] OTHER -> @]
    BY DEF CommitMode
  <2> HIDE DEF n, m
  <2> QED
    BY <1>1, <1>2, <2>1
<1>5. LiveOwns'
  <2>1. JobIds' = JobIds /\ ~(call'["bot"].pc \in Modes)
    BY <1>1, <1>3, SameJobs DEF Modes
  <2>2. ASSUME NEW j \in JobIds, job[j].st = "active", job[j].live, job[j].node \in Nodes
        PROVE  node'[job[j].node].state \in InWorkflow \cup {"DISABLED"}
    <3>1. node[job[j].node].state \in InWorkflow \cup {"DISABLED"}
      BY <2>2 DEF History, LiveOwns
    <3>2. CASE job[j].node = n /\ m # "disabled"
      <4>1. Enabling(n)
        BY <1>1, <3>2 DEF Enabling
      <4>2. node[n].state # "DISABLED"
        BY <1>2, <2>2, <3>2, <4>1 DEF History, LiveOwns
      <4> QED
        BY <1>4, <3>1, <3>2, <4>2
    <3> QED
      BY <1>4, <2>2, <3>1, <3>2
  <2> QED
    BY <1>1, <2>1, <2>2 DEF LiveOwns, Enabling
<1>6. HeadCalled' /\ Shorter
  BY <1>1, <1>3 DEF History, HeadCalled, CallAt, Shorter, Rest
<1> QED
  BY <1>1, <1>5, <1>6, HistoryKept

\* A process dies: the worker's list goes with it.
LEMMA RestartHistory ==
  ASSUME IInv, History, NEW c \in Callers, Restart(c)
  PROVE  History'
<1>1. /\ UNCHANGED <<node, job>> /\ call' = [call EXCEPT ![c] = NoCall]
      /\ call \in [Callers -> Call]
      /\ \/ c = "bot" /\ UNCHANGED cycle
         \/ c = "worker" /\ cycle' = [pc |-> "idle", todo |-> <<>>]
  BY DEF Restart, IInv, TypeOK
<1>2. call'[c].pc = "idle" /\ \A d \in Callers \ {c} : call'[d] = call[d]
  BY <1>1, Idle
<1>3. LiveOwns'
  BY <1>1, <1>2, LiveOwnsKept DEF History, Modes, Callers
<1>4. HeadCalled'
  BY <1>1, <1>2 DEF History, HeadCalled, CallAt, Callers
<1>5. Shorter
  BY <1>1 DEF Shorter, Rest
<1> QED
  BY <1>1, <1>3, <1>4, <1>5, HistoryKept

\* A prefix of an ordered list holds members of the set, each once.
LEMMA PrefixDistinct ==
  ASSUME NEW S \in SUBSET Nat, IsFiniteSet(S), NEW s \in Ascending(S), NEW n \in Nat
  PROVE  /\ \A a \in 1..Len(Prefix(s, n)) : Prefix(s, n)[a] \in S
         /\ \A a, b \in 1..Len(Prefix(s, n)) : a # b => Prefix(s, n)[a] # Prefix(s, n)[b]
<1>1. /\ Cardinality(S) \in Nat /\ s \in [1..Cardinality(S) -> S]
      /\ \A i, k \in DOMAIN s : i < k => s[i] < s[k]
  BY FS_CardinalityType DEF Ascending
<1>2. s \in Seq(S) /\ Len(s) = Cardinality(S)
  BY <1>1, SeqDef, LenProperties
<1> DEFINE m == IF n < Len(s) THEN n ELSE Len(s)
<1>3. /\ m \in Nat /\ m <= Len(s) /\ \A i \in 1..Len(s) : s[i] \in S
      /\ \A i, k \in 1..Len(s) : i < k => s[i] < s[k]
  BY <1>1, <1>2
<1> HIDE DEF m
<1>4. Prefix(s, n) = SubSeq(s, 1, m)
  BY DEF Prefix, m
<1>5. Len(SubSeq(s, 1, m)) = m /\ \A i \in 1..m : SubSeq(s, 1, m)[i] = s[i]
  <2>1. 1 \in Int /\ m \in Int /\ \A i \in 1..m : s[i] \in S
    BY <1>2, <1>3
  <2>2. /\ Len(SubSeq(s, 1, m)) = IF 1 <= m THEN m - 1 + 1 ELSE 0
        /\ \A i \in 1 .. m - 1 + 1 : SubSeq(s, 1, m)[i] = s[1 + i - 1]
    BY <2>1, SubSeqProperties
  <2> QED
    BY <1>3, <2>2
<1>6. ASSUME NEW a \in 1..m, NEW b \in 1..m, a # b PROVE s[a] # s[b]
  <2>1. Len(s) \in Nat
    BY <1>1, <1>2
  <2>2. a \in 1..Len(s) /\ b \in 1..Len(s)
    BY <1>3, <1>6, <2>1
  <2>3. s[a] \in Nat /\ s[b] \in Nat
    BY <1>3, <2>2
  <2>4. s[a] < s[b] \/ s[b] < s[a]
    BY <1>3, <1>6, <2>1, <2>2
  <2> QED
    BY <2>3, <2>4
<1> QED
  BY <1>2, <1>3, <1>4, <1>5, <1>6

\* An eligible node's last job was successful, or a simulation, or the
\* operator's.
LEMMA EligibleSettled ==
  ASSUME IInv, History, NEW n \in Nodes, Eligible(n)
  PROVE  Settled(n)
<1>1. ASSUME NEW i \in JobIds, LastOf(n, i)
      PROVE  job[i].by = "bot" \/ ~job[i].live \/ job[i].st = "completed"
  <2>1. i \in JobsOf(n) /\ JobsOf(n) \subseteq Nat /\ \A k \in JobsOf(n) : k <= i
    BY <1>1, JobRows DEF IInv, LastOf, JobsOf
  <2>2. Latest(n) = i
    BY <2>1 DEF Latest
  <2>3. job[i].st \notin {"failed", "cancelled"} /\ job[i] \in JobRow
    BY <2>1, <2>2, JobRows DEF IInv, Eligible
  <2>4. CASE job[i].st = "active" /\ job[i].live
    <3>1. node[n].state \in InWorkflow \cup {"DISABLED"}
      BY <2>1, <2>4 DEF History, LiveOwns, JobsOf
    <3> QED
      BY <3>1 DEF Eligible, InWorkflow
  <2> QED
    BY <2>3, <2>4 DEF JobRow
<1> QED
  BY <1>1 DEF Settled

\* run_cycle: the list is made of settled nodes, and gets shorter.
LEMMA CycleHistory ==
  ASSUME IInv, History, StartCycle \/ ResumeNext \/ SelectNodes \/ TriggerNext \/ Repair
  PROVE  History'
<1>1. UNCHANGED <<node, job>> /\ Flow /\ call \in [Callers -> Call]
  BY DEF StartCycle, ResumeNext, SelectNodes, TriggerNext, Repair, IInv, TypeOK
<1>2. cycle.pc # "trigger" => CallAt("worker", "idle")
  BY <1>1 DEF Flow
<1>3. CASE StartCycle \/ ResumeNext
  <2>1. CallAt("worker", "idle") /\ UNCHANGED call /\ cycle'.pc = "resume"
    BY <1>2, <1>3 DEF StartCycle, ResumeNext, CycleGoto
  <2>2. LiveOwns' /\ HeadCalled' /\ Shorter
    BY <1>1, <2>1, LiveOwnsKept DEF History, HeadCalled, CallAt, Shorter, Rest
  <2> QED
    BY <1>1, <2>2, HistoryKept
<1>4. CASE SelectNodes
  <2>1. CallAt("worker", "idle") /\ UNCHANGED call
    BY <1>2, <1>4 DEF SelectNodes
  <2>2. LiveOwns' /\ HeadCalled'
    BY <1>1, <2>1, LiveOwnsKept DEF History, HeadCalled, CallAt
  <2>3. CASE CycleGoto("idle", <<>>)
    <3>1. Shorter
      BY <2>3 DEF CycleGoto, Shorter, Rest
    <3> QED
      BY <1>1, <2>2, <3>1, HistoryKept
  <2>4. ASSUME NEW order \in Ascending({n \in Nodes : Eligible(n)}),
               CycleGoto("trigger", Prefix(order, MaxConcurrent))
        PROVE  History'
    <3> DEFINE S == {n \in Nodes : Eligible(n)}
    <3>1. S \subseteq Nat /\ IsFiniteSet(S) /\ MaxConcurrent \in Nat
      <4>1. IsFiniteSet(Nodes) /\ Nodes \subseteq Nat
        BY AdmissionAssumption, FS_Interval DEF Nodes
      <4> QED
        BY <4>1, FS_Subset, AdmissionAssumption
    <3>2. Rest' = Prefix(order, MaxConcurrent)
      BY <2>4 DEF CycleGoto, Rest
    <3>3. /\ \A a \in 1..Len(Rest') : Rest'[a] \in S
          /\ \A a, b \in 1..Len(Rest') : a # b => Rest'[a] # Rest'[b]
      <4> HIDE DEF S
      <4>1. order \in Ascending(S)
        BY <2>4 DEF S
      <4> QED
        BY <3>1, <3>2, <4>1, PrefixDistinct
    <3>4. ASSUME NEW n \in S PROVE Settled(n)'
      <4>1. Settled(n)
        BY EligibleSettled
      <4> QED
        BY <1>1, <4>1, SameJobs DEF Settled, LastOf, JobsOf
    <3>5. Listed'
      BY <3>3, <3>4 DEF Listed
    <3>6. LastActive' /\ WorkerNeverRepeats'
      BY <1>1, SameJobs DEF History, LastActive, WorkerNeverRepeats
    <3> QED
      BY <2>2, <3>5, <3>6 DEF History
  <2> QED
    BY <1>4, <2>3, <2>4 DEF SelectNodes
<1>5. CASE TriggerNext
  <2>1. CASE CycleGoto("idle", <<>>) /\ UNCHANGED call
    <3>1. CallAt("worker", "idle") /\ cycle'.pc = "idle"
      BY <1>5, <2>1 DEF TriggerNext, CycleGoto
    <3>2. LiveOwns' /\ HeadCalled' /\ Shorter
      BY <1>1, <2>1, <3>1, LiveOwnsKept DEF History, HeadCalled, CallAt, Shorter, Rest
    <3> QED
      BY <1>1, <3>2, HistoryKept
  <2>2. CASE /\ UNCHANGED cycle
             /\ call' = [call EXCEPT !["worker"] =
                          [NoCall EXCEPT !.pc = "gates", !.node = Head(cycle.todo)]]
    <3>1. call'["bot"] = call["bot"] /\ call'["worker"].node = Head(cycle.todo)
      BY <1>1, <2>2 DEF Callers, NoCall
    <3>2. LiveOwns'
      BY <1>1, <3>1, LiveOwnsKept DEF History
    <3>3. HeadCalled' /\ Shorter
      BY <2>2, <3>1 DEF HeadCalled, Shorter, Rest
    <3> QED
      BY <1>1, <3>2, <3>3, HistoryKept
  <2> QED
    BY <1>5, <2>1, <2>2 DEF TriggerNext
<1>6. CASE Repair
  <2>1. /\ cycle.pc = "repair" /\ UNCHANGED call
        /\ CycleGoto("trigger", Tail(cycle.todo)) \/ CycleGoto("idle", <<>>)
    BY <1>6 DEF Repair
  <2>2. Shorter
    <3>1. Rest = Tail(cycle.todo)
      BY <2>1 DEF Rest
    <3>2. CASE CycleGoto("trigger", Tail(cycle.todo))
      <4>1. cycle'.pc = "trigger" /\ cycle'.todo = Tail(cycle.todo)
        BY <3>2 DEF CycleGoto
      <4>2. Rest' = Tail(cycle.todo)
        BY <4>1 DEF Rest
      <4> QED
        BY <3>1, <4>2 DEF Shorter
    <3>3. CASE CycleGoto("idle", <<>>)
      <4>1. cycle'.pc = "idle"
        BY <3>3 DEF CycleGoto
      <4> QED
        BY <4>1 DEF Shorter, Rest
    <3> QED
      BY <2>1, <3>2, <3>3
  <2>3. LiveOwns'
    BY <1>1, <2>1, LiveOwnsKept DEF History
  <2>4. HeadCalled'
    BY <1>2, <2>1 DEF HeadCalled, CallAt
  <2> QED
    BY <1>1, <2>2, <2>3, <2>4, HistoryKept
<1> QED
  BY <1>3, <1>4, <1>5, <1>6

\* The first state has no jobs and no list.
LEMMA InitHistory == Init => History
<1> SUFFICES ASSUME Init PROVE History
  OBVIOUS
<1>1. Len(job) = 0 /\ JobIds = {} /\ Rest = <<>> /\ Len(Rest) = 0
  BY EmptySeq DEF Init, JobIds, Rest
<1>2. Listed
  BY <1>1 DEF Listed
<1>3. LastActive /\ LiveOwns /\ WorkerNeverRepeats
  BY <1>1 DEF LastActive, LiveOwns, WorkerNeverRepeats
<1>4. HeadCalled
  BY Idle DEF Init, HeadCalled, CallAt, Callers
<1> QED
  BY <1>2, <1>3, <1>4 DEF History

\* Every step keeps what the rows say.
LEMMA HistoryNext == IInv /\ History /\ [Next]_vars => History'
<1> SUFFICES ASSUME IInv, History, [Next]_vars PROVE History'
  OBVIOUS
<1>0. "worker" \in Callers /\ "bot" \in Callers
  BY DEF Callers
<1>1. CASE WorkerStep
  BY <1>0, <1>1, TriggerHistory, CycleHistory DEF WorkerStep
<1>2. CASE BotStep
  BY <1>0, <1>2, TriggerHistory, CommitHistory DEF BotStep
<1>3. CASE Operator
  BY <1>3, ConfirmationsHistory, AsideHistory, JobsHistory DEF Operator
<1>4. CASE \E j \in JobIds : EndJob(j) \/ DeferTask(j)
  BY <1>4, JobsHistory, AsideHistory
<1>5. CASE \E n \in Nodes : Fail(n) \/ Recover(n)
  BY <1>5, AsideHistory
<1>6. CASE \E c \in Callers : Restart(c)
  BY <1>6, RestartHistory
<1>7. CASE UNCHANGED vars
  <2>1. UNCHANGED <<node, job, call, cycle>>
    BY <1>7 DEF vars
  <2>2. LiveOwns' /\ HeadCalled' /\ Shorter
    BY <2>1, LiveOwnsKept DEF History, HeadCalled, CallAt, Shorter, Rest
  <2> QED
    BY <2>1, <2>2, HistoryKept
<1> QED
  BY <1>1, <1>2, <1>3, <1>4, <1>5, <1>6, <1>7 DEF Next

\* The worker never follows an unsuccessful automatic job of a node with another
\* (workers/replacement.py, _auto_repair_nodes).
THEOREM NeverRepeats == Spec => []WorkerNeverRepeats
<1>1. IInv /\ History /\ [Next]_vars => History'
  BY HistoryNext
<1>2. Init => History
  BY InitHistory
<1>3. History => WorkerNeverRepeats
  BY DEF History
<1> QED
  BY <1>1, <1>2, <1>3, Invariance, PTL DEF Spec
=============================================================================
