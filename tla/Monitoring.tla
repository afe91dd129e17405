----------------------------- MODULE Monitoring -----------------------------
(****************************************************************************)
(* Health checks of one node (MonitoringWorker.run_node), run by the        *)
(* scheduler's cycle and by an operator's manual check under a lease in the *)
(* node row, and what happens to the node meanwhile: it is disabled and     *)
(* enabled, repaired and given another host.  Every change of health is     *)
(* recorded as an event, stamped before it is committed.  The rows are read *)
(* without a lock or a version and only the columns changed are written     *)
(* back, so what commits in between may be overwritten.                     *)
(****************************************************************************)
EXTENDS FiniteSets, NodeStates, Verdicts

CONSTANTS
  Checkers,           \* concurrent executions of run_node
  FailureThreshold,   \* failure_threshold
  RecoveryThreshold,  \* recovery_threshold
  Probes,             \* check nodes asked
  MinSuccess,         \* check_host_min_success_nodes
  MaxClock,           \* bound on the timestamps taken
  MaxFaults,          \* bound on misfortunes and operator's commands
  None, Dead          \* "nobody", and a checker that died holding the lease

VARIABLES
  node,    \* nodes row: state, counters, host (a version of current_host), enabled
  mlease,  \* holder of the unexpired monitoring lease
  chk,     \* each run_node: step, host probed, verdict, time stamp, row as read
  repair,  \* replacement of the node: step, state restored by its failure, stamp,
           \* and the row as its last transaction read it
  events,  \* committed events: time stamp and kind
  clock,   \* time stamps taken so far
  due,     \* history: failures the current host may have counted against it:
           \* those seen on it since it was last found reachable, and those of
           \* checks that were under way when it became current
  alarms,  \* history: NODE_FAILED recorded since the node was last found healthy,
           \* repaired or disabled
  lost,    \* history: writes since the last recovery or repair that were computed
           \* from a row no longer in the table
  faults

monitoring == <<node, mlease, chk, repair, events, clock, due, alarms, lost, faults>>

NewRow == [state |-> "UNKNOWN", fails |-> 0, succ |-> 0]
NoCheck == [pc |-> "idle", host |-> None, verdict |-> "INDETERMINATE", at |-> 0, seen |-> NewRow]
NoRepair == [pc |-> "none", forced |-> FALSE, orig |-> "FAILED", at |-> 0, seen |-> NewRow]

MonInit ==
  /\ node = [state |-> "UNKNOWN", fails |-> 0, succ |-> 0, host |-> 0, enabled |-> TRUE]
  /\ mlease = None
  /\ chk = [c \in Checkers |-> NoCheck]
  /\ repair = NoRepair
  /\ events = {} /\ clock = 0 /\ due = 0 /\ alarms = 0 /\ lost = 0 /\ faults = 0

Misfortune == faults < MaxFaults /\ faults' = faults + 1
Stamped == clock < MaxClock /\ clock' = clock + 1
At(c, l) == chk[c].pc = l
\* What a check learnt is forgotten with its last transaction.
Done(c) == chk' = [chk EXCEPT ![c] = [NoCheck EXCEPT !.pc = "release"]]
\* Checks under way of another host than h.
UnderWay(h) == {c \in Checkers : chk[c].pc \in {"probe", "read", "apply"} /\ chk[c].host # h}
Event(at, kind) == [at |-> at, kind |-> kind]
\* The columns a health verdict is computed from, and what a transaction that
\* read seen leaves of one of them: only a changed value is written.
Row == [state |-> node.state, fails |-> node.fails, succ |-> node.succ]
Over(seen, new, now) == IF new # seen THEN new ELSE now

------------------------------------------------------------------------------
(* run_node.                                                                *)

\* try_acquire_monitoring_lease, then the host is read.
StartCheck(c) ==
  /\ At(c, "idle") /\ node.enabled /\ mlease = None
  /\ mlease' = c
  /\ chk' = [chk EXCEPT ![c] = [NoCheck EXCEPT !.pc = "probe", !.host = node.host]]
  /\ UNCHANGED <<node, repair, events, clock, due, alarms, lost, faults>>

\* poll_result ends with whatever is known at the deadline; a verdict takes a
\* time stamp (that of an indeterminate result is never used).
Probe(c) ==
  /\ At(c, "probe")
  /\ \E s \in Summaries(Probes) :
       LET v == Evaluate(Probes, MinSuccess, s[1], s[2]) IN
       \/ /\ v # "INDETERMINATE" /\ Stamped
          /\ chk' = [chk EXCEPT ![c].pc = "read", ![c].at = clock + 1, ![c].verdict = v]
       \/ v = "INDETERMINATE" /\ Done(c) /\ UNCHANGED clock
  /\ UNCHANGED <<node, mlease, repair, events, due, alarms, lost, faults>>

\* _persist_adapter_error: an event (nobody is told of), the counters stay.
RecordError(c) ==
  /\ At(c, "probe") /\ Done(c) /\ Stamped
  /\ events' = events \cup {Event(clock + 1, "other")}
  /\ UNCHANGED <<node, mlease, repair, due, alarms, lost, faults>>

\* NodeHealthCalculator.apply.
Counted(row, verdict) ==
  IF verdict = "REACHABLE" THEN [row EXCEPT !.fails = 0, !.succ = @ + 1]
                           ELSE [row EXCEPT !.fails = @ + 1, !.succ = 0]
Reached(r, verdict) ==
  CASE verdict = "REACHABLE" /\ r.succ >= RecoveryThreshold -> "HEALTHY"
    [] verdict = "UNREACHABLE" /\ r.fails >= FailureThreshold -> "FAILED"
    [] verdict = "UNREACHABLE" /\ r.fails < FailureThreshold
         /\ r.state \in {"UNKNOWN", "HEALTHY"} -> "DEGRADED"
    [] OTHER -> r.state

\* The event a change of health is worth (NODE_DEGRADED, which nobody is told
\* of, is an "other" one); leaving UNKNOWN for HEALTHY is none.
FaultyHealthEvent(from, to) ==
  CASE to = "FAILED" -> {"failed"}
    [] to = "DEGRADED" /\ from # to -> {"other"}
    [] to = "HEALTHY" /\ from \in {"DEGRADED", "FAILED"} -> {"recovered"}
    [] OTHER -> {}
HealthEvent(from, to) ==
  CASE to = "FAILED" /\ from # to -> {"failed"}
    [] to = "DEGRADED" /\ from # to -> {"other"}
    [] to = "HEALTHY" /\ from \in {"DEGRADED", "FAILED"} -> {"recovered"}
    [] OTHER -> {}

\* The second transaction reads the node again, but not its host: the result
\* counts for whatever host the node has when it commits.
ReadNode(c) ==
  /\ At(c, "read")
  /\ chk' = [chk EXCEPT ![c].pc = "apply", ![c].seen = Row]
  /\ UNCHANGED <<node, mlease, repair, events, clock, due, alarms, lost, faults>>

\* The verdict is applied to the row read, which may be another by now, and
\* committed with its event.  An edge the state machine does not know (HEALTHY
\* -> FAILED, when failure_threshold is 1) raises, and the check leaves no trace.
Apply(c) ==
  LET v == chk[c].verdict  s == chk[c].seen
      r == Counted(s, v)   to == Reached(r, v)
      kinds == HealthEvent(s.state, to) IN
  /\ At(c, "apply") /\ Done(c)
  /\ \/ /\ (s.state \notin Monitored \/ ~CanMove(s.state, to))
        /\ UNCHANGED <<node, events, due, alarms, lost>>
     \/ /\ s.state \in Monitored /\ CanMove(s.state, to)
        /\ node' = [node EXCEPT !.state = Over(s.state, to, @),
                                !.fails = Over(s.fails, r.fails, @),
                                !.succ = Over(s.succ, r.succ, @)]
        /\ events' = events \cup {Event(chk[c].at, k) : k \in kinds}
        /\ due' = CASE v = "REACHABLE" -> Cardinality(UnderWay(node.host) \ {c})
                    [] v # "REACHABLE" /\ chk[c].host = node.host -> due + 1
                    [] OTHER -> due
        /\ alarms' = CASE "failed" \in kinds -> alarms + 1
                       [] node'.state = "HEALTHY" -> 0
                       [] OTHER -> alarms
        /\ lost' = CASE s # Row -> lost + 1
                     [] s = Row /\ to = "HEALTHY" -> 0
                     [] OTHER -> lost
  /\ UNCHANGED <<mlease, repair, clock, faults>>

\* release_monitoring_lease compares the token.
FaultyEndCheck(c) ==
  /\ At(c, "release") /\ mlease' = None
  /\ chk' = [chk EXCEPT ![c] = NoCheck]
  /\ UNCHANGED <<node, repair, events, clock, due, alarms, lost, faults>>
ForgetfulEndCheck(c) ==
  /\ At(c, "release") /\ chk' = [chk EXCEPT ![c] = NoCheck]
  /\ UNCHANGED <<node, mlease, repair, events, clock, due, alarms, lost, faults>>
EndCheck(c) ==
  /\ At(c, "release") /\ mlease' = IF mlease = c THEN None ELSE mlease
  /\ chk' = [chk EXCEPT ![c] = NoCheck]
  /\ UNCHANGED <<node, repair, events, clock, due, alarms, lost, faults>>

\* The process dies; or a check outlives its lease; and leases expire.
CrashCheck(c) ==
  /\ ~At(c, "idle") /\ Misfortune
  /\ mlease' = IF mlease = c THEN Dead ELSE mlease
  /\ chk' = [chk EXCEPT ![c] = NoCheck]
  /\ UNCHANGED <<node, repair, events, clock, due, alarms, lost>>
LapseLease ==
  /\ mlease \in Checkers /\ mlease' = None
  /\ UNCHANGED <<node, chk, repair, events, clock, due, alarms, lost, faults>>
ExpireLease ==
  /\ mlease = Dead /\ mlease' = None
  /\ UNCHANGED <<node, chk, repair, events, clock, due, alarms, lost, faults>>

------------------------------------------------------------------------------
(* The operator and the replacement workflow.                               *)

\* A job of the node is active.
Active == repair.pc \in {"running", "commit"}

\* set_node_operation_mode: disabling drops the lease, not the counters (a
\* node that a late verdict moved out of DISABLED may be disabled again).
Disable ==
  /\ (node.enabled \/ node.state # "DISABLED") /\ ~Active /\ Misfortune /\ Stamped
  /\ node' = [node EXCEPT !.enabled = FALSE, !.state = "DISABLED"]
  /\ mlease' = None /\ alarms' = 0
  /\ events' = events \cup {Event(clock + 1, "other")}
  /\ UNCHANGED <<chk, repair, due, lost>>
Enable ==
  /\ ~node.enabled /\ ~Active /\ Stamped
  /\ node' = [node EXCEPT !.enabled = TRUE, !.state = IF @ = "DISABLED" THEN "UNKNOWN" ELSE @]
  /\ events' = events \cup {Event(clock + 1, "other")}
  /\ UNCHANGED <<mlease, chk, repair, due, alarms, lost, faults>>

\* trigger reads and judges the node's state, then inserts the job and makes
\* the node REPLACING, whatever it has become; a job that did not switch the
\* Master gives the node back.
StartRepair(forced) ==
  /\ repair.pc = "none" /\ Misfortune
  /\ IF forced THEN CanForce(node.state) ELSE node.state = "FAILED"
  /\ repair' = [NoRepair EXCEPT !.pc = "trigger", !.forced = forced, !.orig = node.state]
  /\ UNCHANGED <<node, mlease, chk, events, clock, due, alarms, lost>>
TakeNode ==
  /\ repair.pc = "trigger" /\ repair' = [repair EXCEPT !.pc = "running"]
  /\ node' = [node EXCEPT !.state = "REPLACING"]
  /\ lost' = IF node.state # repair.orig THEN lost + 1 ELSE lost
  /\ UNCHANGED <<mlease, chk, events, clock, due, alarms, faults>>
FailRepair ==
  /\ repair.pc = "running" /\ repair' = NoRepair
  /\ node' = [node EXCEPT !.state = Restored(@, repair.forced, FALSE, repair.orig)]
  /\ UNCHANGED <<mlease, chk, events, clock, due, alarms, lost, faults>>

\* The last transaction of a job reads the node, stamps its event and commits
\* it with the node row: the new host, healthy, with clean counters.
StampRepair ==
  /\ repair.pc = "running" /\ Stamped
  /\ repair' = [repair EXCEPT !.pc = "commit", !.at = clock + 1, !.seen = Row]
  /\ UNCHANGED <<node, mlease, chk, events, due, alarms, lost, faults>>
Repaired(fails, succ) ==
  /\ repair.pc = "commit" /\ repair' = NoRepair
  /\ node' = [node EXCEPT !.state = Over(repair.seen.state, "HEALTHY", @), !.host = @ + 1,
                          !.fails = fails, !.succ = succ]
  /\ events' = events \cup {Event(repair.at, "repaired")}
  /\ due' = Cardinality(UnderWay(node.host + 1)) /\ alarms' = 0
  /\ lost' = IF repair.seen # Row THEN lost + 1 ELSE 0
  /\ UNCHANGED <<mlease, chk, clock, faults>>
FaultyCommitRepair == Repaired(node.fails, node.succ)
CommitRepair ==
  Repaired(Over(repair.seen.fails, 0, node.fails),
           IF repair.seen.succ = 0 THEN 1 ELSE node.succ)

Check(c) == StartCheck(c) \/ Probe(c) \/ ReadNode(c) \/ Apply(c) \/ RecordError(c) \/ EndCheck(c)

MonNext ==
  \/ \E c \in Checkers : Check(c) \/ CrashCheck(c)
  \/ LapseLease \/ ExpireLease
  \/ Disable \/ Enable
  \/ \E forced \in BOOLEAN : StartRepair(forced)
  \/ TakeNode \/ FailRepair \/ StampRepair \/ CommitRepair

MonSpec == MonInit /\ [][MonNext]_monitoring

------------------------------------------------------------------------------
(* Properties.                                                              *)

Rows == [state : NodeState, fails : 0..MaxClock, succ : 0..MaxClock]
Kinds == {"failed", "recovered", "repaired", "other"}

MonTypeOK ==
  /\ node \in [state : NodeState, fails : 0..MaxClock, succ : 0..MaxClock,
               host : 0..MaxFaults, enabled : BOOLEAN]
  /\ mlease \in Checkers \cup {None, Dead}
  /\ \A c \in Checkers : mlease = c => ~At(c, "idle")
  /\ chk \in [Checkers -> [pc : {"idle", "probe", "read", "apply", "release"},
                           host : 0..MaxFaults \cup {None}, verdict : Verdict,
                           at : 0..MaxClock, seen : Rows]]
  /\ repair \in [pc : {"none", "trigger", "running", "commit"}, forced : BOOLEAN,
                 orig : Monitored, at : 0..MaxClock, seen : Rows]
  /\ events \subseteq [at : 1..MaxClock, kind : Kinds]
  /\ clock \in 0..MaxClock /\ due \in 0..(MaxClock + Cardinality(Checkers))
  /\ alarms \in 0..MaxClock /\ lost \in 0..(MaxClock + MaxFaults)
  /\ faults \in 0..MaxFaults

\* A new host does not inherit its predecessor's failures: unless a write was
\* computed from a row another one replaced, the counter never exceeds the
\* failures seen on the current host since it was last reachable, and those of
\* checks that were under way when the host changed (one per execution, at
\* most).  So a repaired node is not declared FAILED, and repaired again, for
\* what was counted against its old server; and one clean recovery or repair
\* makes up for every lost update.
StaleResultsBounded == lost = 0 => node.fails <= due

\* Every repeated alarm is the price of a lost update: NODE_FAILED is recorded
\* at most once until the node is healthy again, repaired or disabled, and once
\* more for each check, trigger or repair that committed over a row it had not
\* read.
RepeatsPaid == alarms <= lost + 1

\* A check that ends after its lease expired does not release the lease of the
\* check that follows: while one holds it, no step of another takes it away.
MonitoringLeaseKept ==
  [][\A c \in Checkers : mlease = c /\ mlease' # c
       => \A d \in Checkers \ {c} : chk'[d] = chk[d]]_monitoring
=============================================================================
