---------------------------- MODULE AlertingProofs ----------------------------
(****************************************************************************)
(* Proofs about monitoring and the notifier, for any number of executions   *)
(* of run_node, time stamps, thresholds, batches and faults.                *)
(****************************************************************************)
EXTENDS Alerting, FiniteSetTheorems, SequenceTheorems, TLAPS

------------------------------------------------------------------------------
(* The inductive invariant of monitoring.                                   *)

\* Checks that have stamped a verdict and not committed it yet.
Judging == {c \in Checkers : chk[c].pc \in {"read", "apply"}}
Stamping == IF repair.pc = "commit" THEN 1 ELSE 0
Starting == IF repair.pc = "trigger" THEN 1 ELSE 0
Repairing == IF repair.pc # "none" THEN 1 ELSE 0

\* Every count has taken a time stamp of its own, every repair and every lost
\* trigger is a fault.
CountsStamped ==
  /\ node.fails + Cardinality(Judging) <= clock
  /\ node.succ + Cardinality(Judging) + Stamping <= clock
  /\ alarms + Cardinality(Judging) <= clock
  /\ lost + Cardinality(Judging) + Stamping + Starting <= clock + faults
  /\ due + Cardinality(Judging) <= clock + Cardinality(Checkers)
  /\ node.host + Repairing <= faults

\* So have the counts a check has read, however old they are.
SeenStamped ==
  \A c \in Checkers : At(c, "apply") =>
    /\ chk[c].seen.fails + Cardinality(Judging) <= clock
    /\ chk[c].seen.succ + Cardinality(Judging) + Stamping <= clock

\* What StaleResultsBounded leaves out: a check under way of another host may
\* yet count a failure that its host never had.
StaleCounted == lost = 0 => node.fails + Cardinality(UnderWay(node.host)) <= due

\* What RepeatsPaid leaves out: the one alarm that is free belongs to a node
\* that is failed, or was when the repair took it.
Alarming == node.state = "FAILED" \/ (node.state = "REPLACING" /\ repair.orig = "FAILED")
AlarmsPaid == alarms <= lost + 1 /\ (~Alarming => alarms <= lost)

\* A verdict that gets as far as the node row is one way or the other.
Decided == \A c \in Judging : chk[c].verdict # "INDETERMINATE"

\* Time stamps are taken in order and belong to one event each, committed or not.
StampsApart ==
  /\ \A c \in Judging : chk[c].at \in 1..clock
  /\ \A c, d \in Judging : c # d => chk[c].at # chk[d].at
  /\ repair.pc = "commit" => /\ repair.at \in 1..clock
                             /\ \A c \in Judging : chk[c].at # repair.at
                             /\ \A e \in events : e.at # repair.at
  /\ \A e \in events : e.at \in 1..clock /\ (\A c \in Judging : chk[c].at # e.at)
  /\ \A e, f \in events : e.at = f.at => e = f

MonInv ==
  /\ MonTypeOK /\ IsFiniteSet(events)
  /\ CountsStamped /\ SeenStamped /\ StaleCounted /\ AlarmsPaid /\ Decided /\ StampsApart

------------------------------------------------------------------------------
(* Lemmas about the state.                                                  *)

CheckRow == [pc : {"idle", "probe", "read", "apply", "release"}, host : 0..MaxFaults \cup {None},
             verdict : Verdict, at : 0..MaxClock, seen : Rows]
NodeRow == [state : NodeState, fails : 0..MaxClock, succ : 0..MaxClock,
            host : 0..MaxFaults, enabled : BOOLEAN]
RepairRow == [pc : {"none", "trigger", "running", "commit"}, forced : BOOLEAN,
              orig : Monitored, at : 0..MaxClock, seen : Rows]

\* Sets of executions can be counted.
LEMMA ChecksCounted ==
  ASSUME NEW S \in SUBSET Checkers
  PROVE  /\ IsFiniteSet(S) /\ Cardinality(S) \in Nat /\ Cardinality(S) <= Cardinality(Checkers)
         /\ Cardinality(Checkers) \in Nat
BY FS_Subset, FS_CardinalityType, AlertingAssumption

\* One execution fewer, one more.
LEMMA OneLess ==
  ASSUME NEW S \in SUBSET Checkers, NEW c
  PROVE  /\ Cardinality(S \ {c}) = IF c \in S THEN Cardinality(S) - 1 ELSE Cardinality(S)
         /\ Cardinality(S \cup {c}) = IF c \in S THEN Cardinality(S) ELSE Cardinality(S) + 1
BY ChecksCounted, FS_RemoveElement, FS_AddElement

\* The columns of the node row and of the repair, and the counters.
LEMMA Columns ==
  ASSUME MonTypeOK
  PROVE  /\ node \in NodeRow /\ node.state \in NodeState /\ node.host \in 0..MaxFaults
         /\ node.fails \in 0..MaxClock /\ node.succ \in 0..MaxClock /\ node.enabled \in BOOLEAN
         /\ repair \in RepairRow /\ repair.pc \in {"none", "trigger", "running", "commit"}
         /\ repair.forced \in BOOLEAN /\ repair.orig \in Monitored /\ repair.at \in 0..MaxClock
         /\ repair.seen \in Rows
         /\ clock \in 0..MaxClock /\ due \in Nat /\ faults \in 0..MaxFaults
         /\ alarms \in 0..MaxClock /\ lost \in 0..(MaxClock + MaxFaults)
         /\ MaxClock \in Nat /\ MaxFaults \in Nat /\ Cardinality(Checkers) \in Nat
         /\ chk \in [Checkers -> CheckRow] /\ \A c \in Checkers : chk[c] \in CheckRow
BY AlertingAssumption, ChecksCounted DEF MonTypeOK, CheckRow, NodeRow, RepairRow

\* The rows of nothing.
LEMMA NoRows == NewRow \in Rows /\ NoCheck \in CheckRow /\ NoRepair \in RepairRow /\ NoRepair.pc = "none"
<1>1. NewRow \in Rows
  BY AlertingAssumption DEF NewRow, Rows, NodeState, Monitored
<1>2. NoCheck \in CheckRow
  BY <1>1, AlertingAssumption DEF NoCheck, CheckRow, Verdict
<1>3. NoRepair \in RepairRow /\ NoRepair.pc = "none"
  BY <1>1, AlertingAssumption DEF NoRepair, RepairRow, Monitored
<1> QED
  BY <1>1, <1>2, <1>3

\* What a transaction reads of the node row.
LEMMA RowTyped ==
  ASSUME MonTypeOK
  PROVE  Row \in Rows /\ Row.state = node.state /\ Row.fails = node.fails /\ Row.succ = node.succ
BY Columns DEF Row, Rows

\* The verdicts of Check-Host are verdicts.
LEMMA VerdictTyped ==
  ASSUME NEW ok, NEW bad
  PROVE  Evaluate(Probes, MinSuccess, ok, bad) \in Verdict
BY DEF Evaluate, Verdict

\* An execution that leaves its check: nothing of it remains to be counted.
LEMMA CheckLeaves ==
  ASSUME MonTypeOK, NEW c \in Checkers, NEW r \in CheckRow, r.pc \in {"idle", "release"},
         chk' = [chk EXCEPT ![c] = r]
  PROVE  /\ Judging' = Judging \ {c}
         /\ \A h : {d \in Checkers : chk'[d].pc \in {"probe", "read", "apply"} /\ chk'[d].host # h}
                     = UnderWay(h) \ {c}
         /\ chk' \in [Checkers -> CheckRow] /\ chk'[c] = r
         /\ \A d \in Checkers \ {c} : chk'[d] = chk[d]
         /\ \A d \in Checkers : At(d, "apply")' => At(d, "apply") /\ chk'[d] = chk[d]
BY Columns DEF Judging, UnderWay, At

\* A counted set of checks loses one that is in it, or one that is not.
LEMMA CheckCounts ==
  ASSUME MonTypeOK, NEW c \in Checkers
  PROVE  /\ Cardinality(Judging) \in Nat /\ Cardinality(Judging \ {c}) \in Nat
         /\ Cardinality(Judging \ {c}) <= Cardinality(Judging)
         /\ At(c, "apply") => Cardinality(Judging \ {c}) = Cardinality(Judging) - 1
         /\ \A h : /\ Cardinality(UnderWay(h)) \in Nat /\ Cardinality(UnderWay(h) \ {c}) \in Nat
                   /\ Cardinality(UnderWay(h) \ {c}) <= Cardinality(UnderWay(h))
                   /\ c \in UnderWay(h) => Cardinality(UnderWay(h) \ {c}) = Cardinality(UnderWay(h)) - 1
                   /\ c \notin UnderWay(h) => Cardinality(UnderWay(h) \ {c}) = Cardinality(UnderWay(h))
<1>1. Judging \in SUBSET Checkers /\ (At(c, "apply") => c \in Judging)
  BY DEF Judging, At
<1>2. \A S \in SUBSET Checkers :
        /\ Cardinality(S) \in Nat /\ Cardinality(S \ {c}) \in Nat
        /\ Cardinality(S \ {c}) = IF c \in S THEN Cardinality(S) - 1 ELSE Cardinality(S)
  <2> TAKE S \in SUBSET Checkers
  <2>1. S \ {c} \in SUBSET Checkers
    OBVIOUS
  <2> QED
    BY <2>1, ChecksCounted, OneLess
<1>3. \A h : UnderWay(h) \in SUBSET Checkers
  BY DEF UnderWay
<1>4. \A h : /\ Cardinality(UnderWay(h)) \in Nat /\ Cardinality(UnderWay(h) \ {c}) \in Nat
             /\ Cardinality(UnderWay(h) \ {c}) = IF c \in UnderWay(h) THEN Cardinality(UnderWay(h)) - 1
                                                  ELSE Cardinality(UnderWay(h))
  BY <1>2, <1>3
<1>5. /\ Cardinality(Judging) \in Nat /\ Cardinality(Judging \ {c}) \in Nat
      /\ Cardinality(Judging \ {c}) = IF c \in Judging THEN Cardinality(Judging) - 1
                                      ELSE Cardinality(Judging)
  BY <1>1, <1>2
<1> HIDE DEF Judging
<1> QED
  BY <1>1, <1>4, <1>5

\* The counts read stay paid for while no more checks wait for the clock.
LEMMA SeenKept ==
  ASSUME MonTypeOK, SeenStamped,
         \A d \in Checkers : At(d, "apply")' => At(d, "apply") /\ chk'[d] = chk[d],
         Cardinality(Judging) \in Nat, Cardinality(Judging)' \in Nat, clock' \in Nat,
         Cardinality(Judging)' + clock <= Cardinality(Judging) + clock',
         Cardinality(Judging)' + Stamping' + clock <= Cardinality(Judging) + Stamping + clock'
  PROVE  SeenStamped'
<1>1. Stamping \in Nat /\ Stamping' \in Nat /\ clock \in Nat
  BY Columns DEF Stamping
<1> SUFFICES ASSUME NEW d \in Checkers, At(d, "apply")'
             PROVE  /\ chk'[d].seen.fails + Cardinality(Judging)' <= clock'
                    /\ chk'[d].seen.succ + Cardinality(Judging)' + Stamping' <= clock'
  BY DEF SeenStamped
<1>2. /\ At(d, "apply") /\ chk'[d] = chk[d]
      /\ chk[d].seen.fails \in Nat /\ chk[d].seen.succ \in Nat
  BY Columns DEF CheckRow, Rows
<1>3. /\ chk[d].seen.fails + Cardinality(Judging) <= clock
      /\ chk[d].seen.succ + Cardinality(Judging) + Stamping <= clock
  BY <1>2 DEF SeenStamped
<1> HIDE DEF Judging, Stamping
<1> QED
  BY <1>1, <1>2, <1>3

\* A check leaves without having counted anything.
LEMMA LeavesQuietly ==
  ASSUME MonInv, NEW c \in Checkers, NEW r \in CheckRow, r.pc \in {"idle", "release"},
         chk' = [chk EXCEPT ![c] = r], UNCHANGED <<node, repair, due, alarms, lost, clock, events>>,
         mlease' \in Checkers \cup {None, Dead}, \A d \in Checkers : mlease' = d => ~At(d, "idle")',
         faults' \in 0..MaxFaults, faults <= faults'
  PROVE  MonInv'
<1>1. /\ Judging' = Judging \ {c}
      /\ \A h : {d \in Checkers : chk'[d].pc \in {"probe", "read", "apply"} /\ chk'[d].host # h}
                  = UnderWay(h) \ {c}
      /\ chk' \in [Checkers -> CheckRow] /\ \A d \in Judging' : chk'[d] = chk[d]
      /\ \A d \in Checkers : At(d, "apply")' => At(d, "apply") /\ chk'[d] = chk[d]
  BY CheckLeaves DEF MonInv, Judging
<1>2. MonTypeOK'
  BY <1>1 DEF MonInv, MonTypeOK, CheckRow
<1>3. UnderWay(node.host)' = UnderWay(node.host) \ {c}
  BY <1>1 DEF UnderWay
<1>4. CountsStamped' /\ StaleCounted' /\ AlarmsPaid'
  BY <1>1, <1>3, CheckCounts, Columns
     DEF MonInv, CountsStamped, StaleCounted, AlarmsPaid, Alarming, Stamping, Starting, Repairing
<1>5. SeenStamped'
  <2>1. /\ Cardinality(Judging) \in Nat /\ Cardinality(Judging \ {c}) \in Nat
        /\ Cardinality(Judging \ {c}) <= Cardinality(Judging)
        /\ clock \in Nat /\ Stamping' = Stamping /\ Stamping \in Nat
    BY CheckCounts, Columns DEF MonInv, Stamping
  <2> QED
    BY <1>1, <2>1, SeenKept DEF MonInv
<1>6. StampsApart' /\ Decided'
  BY <1>1 DEF MonInv, StampsApart, Decided
<1> QED
  BY <1>2, <1>4, <1>5, <1>6 DEF MonInv

\* An execution ends its check or dies.
LEMMA EndKeeps ==
  ASSUME MonInv, NEW c \in Checkers, EndCheck(c) \/ CrashCheck(c)
  PROVE  MonInv'
<1>1. NoCheck \in CheckRow /\ NoCheck.pc = "idle"
  BY NoRows DEF NoCheck
<1>2. /\ chk' = [chk EXCEPT ![c] = NoCheck] /\ UNCHANGED <<node, repair, due, alarms, lost, clock, events>>
      /\ faults' \in 0..MaxFaults /\ faults <= faults'
      /\ mlease' \in Checkers \cup {None, Dead} /\ mlease' \in {mlease, None, Dead} /\ mlease' # c
  BY AlertingAssumption DEF MonInv, MonTypeOK, EndCheck, CrashCheck, Misfortune
<1>3. \A d \in Checkers : mlease' = d => ~At(d, "idle")'
  BY <1>2, AlertingAssumption DEF MonInv, MonTypeOK, At
<1> QED
  BY <1>1, <1>2, <1>3, LeavesQuietly

\* A check begins, with the host the node has.
LEMMA StartKeeps ==
  ASSUME MonInv, NEW c \in Checkers, StartCheck(c)
  PROVE  MonInv'
<1> DEFINE r == [NoCheck EXCEPT !.pc = "probe", !.host = node.host]
<1>0. node.host \in 0..MaxFaults
  BY Columns DEF MonInv
<1>1. r \in CheckRow /\ r.pc = "probe" /\ r.host = node.host
  BY <1>0, NoRows DEF CheckRow
<1>2. chk' = [chk EXCEPT ![c] = r] /\ mlease' = c /\ At(c, "idle")
      /\ UNCHANGED <<node, repair, events, clock, due, alarms, lost, faults>>
  BY DEF StartCheck
<1> HIDE DEF r
<1>3. /\ chk' \in [Checkers -> CheckRow] /\ chk'[c] = r
      /\ \A d \in Checkers \ {c} : chk'[d] = chk[d]
  BY <1>1, <1>2, Columns DEF MonInv
<1>4. /\ Judging' = Judging /\ UnderWay(node.host)' = UnderWay(node.host)
      /\ \A d \in Judging : chk'[d] = chk[d]
      /\ \A d \in Checkers : At(d, "apply")' => At(d, "apply") /\ chk'[d] = chk[d]
  BY <1>1, <1>2, <1>3 DEF Judging, UnderWay, At
<1>5. MonTypeOK'
  BY <1>1, <1>2, <1>3, AlertingAssumption DEF MonInv, MonTypeOK, CheckRow, At
<1>6. CountsStamped' /\ StaleCounted' /\ AlarmsPaid' /\ Decided' /\ StampsApart'
  BY <1>2, <1>4 DEF MonInv, CountsStamped, StaleCounted, AlarmsPaid, Alarming, Decided, StampsApart,
                    Stamping, Starting, Repairing
<1>7. SeenStamped'
  BY <1>2, <1>4 DEF MonInv, SeenStamped, Stamping
<1> QED
  BY <1>2, <1>5, <1>6, <1>7 DEF MonInv

\* A new event: the log stays finite.
LEMMA LogGrows ==
  ASSUME IsFiniteSet(events), NEW e
  PROVE  IsFiniteSet(events \cup {e})
BY FS_AddElement

\* What Done leaves of a check.
LEMMA ReleaseRow == [NoCheck EXCEPT !.pc = "release"] \in CheckRow /\ [NoCheck EXCEPT !.pc = "release"].pc = "release"
BY NoRows DEF CheckRow

\* An event with a fresh time stamp, and nothing else that counts.
LEMMA FreshEvent ==
  ASSUME MonInv, clock' = clock + 1, repair' = repair, NEW kind, events' = events \cup {Event(clock + 1, kind)},
         Judging' \subseteq Judging, \A d \in Judging' : chk'[d] = chk[d]
  PROVE  StampsApart' /\ Decided' /\ IsFiniteSet(events)'
<1>1. clock \in Nat
  BY Columns DEF MonInv
<1>2. IsFiniteSet(events)' /\ Decided'
  BY LogGrows DEF MonInv, Decided
<1>3. StampsApart'
  BY <1>1 DEF MonInv, StampsApart, Event
<1> QED
  BY <1>2, <1>3

\* A check whose request failed is recorded and leaves.
LEMMA RecordErrorKeeps ==
  ASSUME MonInv, NEW c \in Checkers, RecordError(c)
  PROVE  MonInv'
<1> DEFINE r == [NoCheck EXCEPT !.pc = "release"]
<1>1. /\ At(c, "probe") /\ chk' = [chk EXCEPT ![c] = r] /\ clock < MaxClock /\ clock' = clock + 1
      /\ events' = events \cup {Event(clock + 1, "other")}
      /\ UNCHANGED <<node, mlease, repair, due, alarms, lost, faults>>
  BY DEF RecordError, Done, Stamped
<1>2. r \in CheckRow /\ r.pc = "release"
  BY ReleaseRow
<1> HIDE DEF r
<1>3. /\ Judging' = Judging \ {c}
      /\ \A h : {d \in Checkers : chk'[d].pc \in {"probe", "read", "apply"} /\ chk'[d].host # h}
                  = UnderWay(h) \ {c}
      /\ chk' \in [Checkers -> CheckRow] /\ chk'[c] = r
      /\ \A d \in Checkers \ {c} : chk'[d] = chk[d]
      /\ \A d \in Checkers : At(d, "apply")' => At(d, "apply") /\ chk'[d] = chk[d]
  BY <1>1, <1>2, CheckLeaves DEF MonInv
<1>4. MonTypeOK'
  <2>1. clock' \in 0..MaxClock /\ Event(clock + 1, "other") \in [at : 1..MaxClock, kind : Kinds]
    BY <1>1, Columns DEF MonInv, Event, Kinds
  <2>2. \A d \in Checkers : mlease' = d => ~At(d, "idle")'
    BY <1>1, <1>2, <1>3 DEF MonInv, MonTypeOK, At
  <2> QED
    BY <1>1, <1>3, <2>1, <2>2 DEF MonInv, MonTypeOK, CheckRow
<1>5. UnderWay(node.host)' = UnderWay(node.host) \ {c}
  BY <1>1, <1>3 DEF UnderWay
<1>6. CountsStamped' /\ StaleCounted' /\ AlarmsPaid'
  BY <1>1, <1>3, <1>5, CheckCounts, Columns
     DEF MonInv, CountsStamped, StaleCounted, AlarmsPaid, Alarming, Stamping, Starting, Repairing
<1>7. SeenStamped'
  <2>1. /\ Cardinality(Judging) \in Nat /\ Cardinality(Judging \ {c}) \in Nat
        /\ Cardinality(Judging \ {c}) <= Cardinality(Judging)
        /\ clock \in Nat /\ clock' \in Nat /\ Stamping' = Stamping /\ Stamping \in Nat
    BY <1>1, CheckCounts, Columns DEF MonInv, Stamping
  <2> QED
    BY <1>1, <1>3, <2>1, SeenKept DEF MonInv
<1>8. StampsApart' /\ Decided' /\ IsFiniteSet(events)'
  BY <1>1, <1>3, FreshEvent DEF Judging
<1> QED
  BY <1>4, <1>6, <1>7, <1>8 DEF MonInv

\* A check ends with a verdict, which takes a time stamp, or with none.
LEMMA ProbeKeeps ==
  ASSUME MonInv, NEW c \in Checkers, Probe(c)
  PROVE  MonInv'
<1>1. CASE Done(c) /\ UNCHANGED clock
  <2> DEFINE r == [NoCheck EXCEPT !.pc = "release"]
  <2>1. r \in CheckRow /\ r.pc = "release"
    BY ReleaseRow
  <2>2. /\ chk' = [chk EXCEPT ![c] = r] /\ At(c, "probe")
        /\ UNCHANGED <<node, mlease, repair, events, due, alarms, lost, faults, clock>>
    BY <1>1 DEF Probe, Done
  <2> HIDE DEF r
  <2>3. \A d \in Checkers : mlease' = d => ~At(d, "idle")'
    BY <2>1, <2>2, CheckLeaves DEF MonInv, MonTypeOK, At
  <2>4. mlease' \in Checkers \cup {None, Dead} /\ faults' \in 0..MaxFaults /\ faults <= faults'
    BY <2>2, Columns DEF MonInv, MonTypeOK
  <2> QED
    BY <2>1, <2>2, <2>3, <2>4, LeavesQuietly
<1>2. ASSUME NEW v \in Verdict, v # "INDETERMINATE", Stamped, At(c, "probe"),
             UNCHANGED <<node, mlease, repair, events, due, alarms, lost, faults>>,
             chk' = [chk EXCEPT ![c].pc = "read", ![c].at = clock + 1, ![c].verdict = v]
      PROVE  MonInv'
  <2>1. clock < MaxClock /\ clock' = clock + 1 /\ clock \in Nat /\ clock' \in 1..MaxClock
    BY <1>2, Columns DEF Stamped, MonInv
  <2> DEFINE r == [chk[c] EXCEPT !.pc = "read", !.at = clock + 1, !.verdict = v]
  <2>2. r \in CheckRow /\ r.pc = "read" /\ r.at = clock + 1 /\ r.host = chk[c].host /\ r.verdict = v
    <3>1. chk[c] \in CheckRow
      BY Columns DEF MonInv
    <3>2. clock + 1 \in 0..MaxClock
      BY <2>1, Columns DEF MonInv
    <3> QED
      BY <1>2, <3>1, <3>2 DEF CheckRow
  <2>3. chk' = [chk EXCEPT ![c] = r]
    BY <1>2
  <2> HIDE DEF r
  <2>4. /\ chk' \in [Checkers -> CheckRow] /\ chk'[c] = r
        /\ \A d \in Checkers \ {c} : chk'[d] = chk[d]
    BY <2>2, <2>3, Columns DEF MonInv
  <2>5. /\ Judging' = Judging \cup {c} /\ c \notin Judging
        /\ UnderWay(node.host)' = UnderWay(node.host)
        /\ \A d \in Checkers : At(d, "apply")' => At(d, "apply") /\ chk'[d] = chk[d]
    BY <1>2, <2>2, <2>4 DEF Judging, UnderWay, At
  <2>6. MonTypeOK'
    <3>1. \A d \in Checkers : mlease' = d => ~At(d, "idle")'
      BY <1>2, <2>2, <2>4 DEF MonInv, MonTypeOK, At
    <3> QED
      BY <1>2, <2>1, <2>4, <3>1 DEF MonInv, MonTypeOK, CheckRow
  <2>7. Cardinality(Judging') = Cardinality(Judging) + 1 /\ Cardinality(Judging) \in Nat
    <3>1. Judging \in SUBSET Checkers
      BY DEF Judging
    <3>2. Cardinality(Judging) \in Nat
      BY <3>1, ChecksCounted
    <3> HIDE DEF Judging
    <3> QED
      BY <2>5, <3>1, <3>2, OneLess
  <2>8. CountsStamped' /\ StaleCounted' /\ AlarmsPaid'
    BY <1>2, <2>1, <2>5, <2>7, Columns
       DEF MonInv, CountsStamped, StaleCounted, AlarmsPaid, Alarming, Stamping, Starting, Repairing
  <2>9. SeenStamped'
    <3>1. Stamping' = Stamping /\ Stamping \in Nat
      BY <1>2 DEF Stamping
    <3> HIDE DEF Judging
    <3> QED
      BY <2>1, <2>5, <2>7, <3>1, SeenKept DEF MonInv
  <2>10. StampsApart' /\ Decided'
    <3>1. /\ \A d \in Judging : chk'[d] = chk[d] /\ chk[d].at \in 1..clock
          /\ chk'[c].at = clock + 1
      BY <2>2, <2>4, <2>5 DEF MonInv, StampsApart, Judging
    <3>2. /\ \A d \in Judging' : chk'[d].at \in 1..clock'
          /\ \A d, g \in Judging' : d # g => chk'[d].at # chk'[g].at
      BY <2>1, <2>5, <3>1 DEF MonInv, StampsApart
    <3>3. /\ \A e \in events : e.at \in 1..clock
          /\ repair.pc = "commit" => repair.at \in 1..clock
      BY DEF MonInv, StampsApart
    <3>4. /\ \A e \in events, d \in Judging' : chk'[d].at # e.at
          /\ repair.pc = "commit" => \A d \in Judging' : chk'[d].at # repair.at
      BY <2>1, <2>5, <3>1, <3>3 DEF MonInv, StampsApart
    <3>5. /\ events' = events /\ repair' = repair
          /\ \A n : n \in 1..clock => n \in 1..clock'
          /\ \A e, f \in events : e.at = f.at => e = f
          /\ repair.pc = "commit" => \A e \in events : e.at # repair.at
      BY <1>2, <2>1 DEF MonInv, StampsApart
    <3>6. /\ \A e \in events' : e.at \in 1..clock' /\ (\A d \in Judging' : chk'[d].at # e.at)
          /\ \A e, f \in events' : e.at = f.at => e = f
      BY <3>3, <3>4, <3>5
    <3>7. repair'.pc = "commit" => /\ repair'.at \in 1..clock'
                                   /\ \A d \in Judging' : chk'[d].at # repair'.at
                                   /\ \A e \in events' : e.at # repair'.at
      BY <3>3, <3>4, <3>5
    <3>8. Decided'
      BY <1>2, <2>2, <2>4, <2>5, <3>1 DEF MonInv, Decided
    <3> HIDE DEF Judging
    <3> QED
      BY <3>2, <3>6, <3>7, <3>8 DEF StampsApart
  <2> QED
    BY <1>2, <2>6, <2>8, <2>9, <2>10 DEF MonInv
<1> QED
  BY <1>1, <1>2, VerdictTyped DEF Probe

\* A check reads the node row, whose counts are paid for.
LEMMA ReadKeeps ==
  ASSUME MonInv, NEW c \in Checkers, ReadNode(c)
  PROVE  MonInv'
<1> DEFINE r == [chk[c] EXCEPT !.pc = "apply", !.seen = Row]
<1>1. /\ At(c, "read") /\ chk' = [chk EXCEPT ![c] = r]
      /\ UNCHANGED <<node, mlease, repair, events, clock, due, alarms, lost, faults>>
  BY DEF ReadNode
<1>2. /\ r \in CheckRow /\ r.pc = "apply" /\ r.at = chk[c].at /\ r.host = chk[c].host
      /\ r.verdict = chk[c].verdict /\ r.seen.fails = node.fails /\ r.seen.succ = node.succ
  <2>1. chk[c] \in CheckRow /\ Row \in Rows /\ Row.fails = node.fails /\ Row.succ = node.succ
    BY Columns, RowTyped DEF MonInv
  <2> QED
    BY <2>1 DEF CheckRow
<1> HIDE DEF r
<1>3. /\ chk' \in [Checkers -> CheckRow] /\ chk'[c] = r
      /\ \A d \in Checkers \ {c} : chk'[d] = chk[d]
  BY <1>1, <1>2, Columns DEF MonInv
<1>4. /\ Judging' = Judging /\ UnderWay(node.host)' = UnderWay(node.host)
      /\ \A d \in Judging : chk'[d].at = chk[d].at /\ chk'[d].verdict = chk[d].verdict
  BY <1>1, <1>2, <1>3 DEF Judging, UnderWay, At
<1>5. MonTypeOK'
  BY <1>1, <1>2, <1>3 DEF MonInv, MonTypeOK, CheckRow, At
<1>6. CountsStamped' /\ StaleCounted' /\ AlarmsPaid' /\ Decided' /\ StampsApart'
  BY <1>1, <1>4 DEF MonInv, CountsStamped, StaleCounted, AlarmsPaid, Alarming, Decided, StampsApart,
                    Stamping, Starting, Repairing
<1>7. SeenStamped'
  BY <1>1, <1>2, <1>3, <1>4 DEF MonInv, SeenStamped, CountsStamped, Stamping, At
<1> QED
  BY <1>1, <1>5, <1>6, <1>7 DEF MonInv

\* Who holds the lease is under way, when no check moves and nobody gets it.
LEMMA LeaseTyped ==
  ASSUME MonTypeOK, UNCHANGED chk, mlease' \in {mlease, None}
  PROVE  /\ mlease' \in Checkers \cup {None, Dead} /\ \A d \in Checkers : mlease' = d => ~At(d, "idle")'
         /\ Judging' = Judging /\ UnderWay(node.host) \in SUBSET Checkers
         /\ Cardinality(Judging) \in Nat /\ Cardinality(UnderWay(node.host)) \in Nat
         /\ \A d \in Checkers : At(d, "apply")' => At(d, "apply") /\ chk'[d] = chk[d]
<1>1. Judging \in SUBSET Checkers /\ UnderWay(node.host) \in SUBSET Checkers
  BY DEF Judging, UnderWay
<1>2. mlease' \in Checkers \cup {None, Dead} /\ \A d \in Checkers : mlease' = d => ~At(d, "idle")'
  BY AlertingAssumption DEF MonTypeOK, At
<1>3. Judging' = Judging /\ \A d \in Checkers : At(d, "apply")' => At(d, "apply") /\ chk'[d] = chk[d]
  BY DEF Judging, At
<1> QED
  BY <1>1, <1>2, <1>3, ChecksCounted

\* A time stamp pays for a repair's.
LEMMA StampPays ==
  ASSUME NEW n \in Nat, NEW k \in Nat, NEW l \in {k, k + 1}, NEW s \in {0, 1}, NEW u \in {0, 1},
         u = 1 => s = 1 \/ l = k + 1
  PROVE  l \in Nat /\ n + k <= n + l /\ n + u + k <= n + s + l
OBVIOUS

\* No check moves, and the clock does not go back: what was read stays paid for.
LEMMA SeenStays ==
  ASSUME MonInv, UNCHANGED chk, mlease' \in {mlease, None}, clock' \in {clock, clock + 1},
         repair'.pc = "commit" => repair.pc = "commit" \/ clock' = clock + 1
  PROVE  SeenStamped'
<1>1. /\ Judging' = Judging /\ Cardinality(Judging) \in Nat /\ clock \in Nat
      /\ \A d \in Checkers : At(d, "apply")' => At(d, "apply") /\ chk'[d] = chk[d]
  BY LeaseTyped, Columns DEF MonInv
<1>2. /\ Stamping \in {0, 1} /\ Stamping' \in {0, 1}
      /\ Stamping' = 1 => Stamping = 1 \/ clock' = clock + 1
  BY DEF Stamping
<1>3. \A n \in Nat : /\ clock' \in Nat /\ n + clock <= n + clock'
                     /\ n + Stamping' + clock <= n + Stamping + clock'
  BY <1>1, <1>2, StampPays
<1>4. /\ Cardinality(Judging)' \in Nat /\ clock' \in Nat
      /\ Cardinality(Judging)' + clock <= Cardinality(Judging) + clock'
      /\ Cardinality(Judging)' + Stamping' + clock <= Cardinality(Judging) + Stamping + clock'
  BY <1>1, <1>3
<1> QED
  BY <1>1, <1>4, SeenKept DEF MonInv

\* The lease of a check that lives, or of one that died, expires.
LEMMA ExpiryKeeps ==
  ASSUME MonInv, LapseLease \/ ExpireLease
  PROVE  MonInv'
<1>1. mlease' = None /\ UNCHANGED <<node, chk, repair, events, clock, due, alarms, lost, faults>>
  BY DEF LapseLease, ExpireLease
<1>2. MonTypeOK'
  BY <1>1, LeaseTyped DEF MonInv, MonTypeOK
<1>3. Judging' = Judging /\ UnderWay(node.host)' = UnderWay(node.host)
  BY <1>1 DEF Judging, UnderWay, At
<1>4. SeenStamped'
  BY <1>1, <1>3 DEF MonInv, SeenStamped, Stamping, At
<1> QED
  BY <1>1, <1>2, <1>3, <1>4 DEF MonInv, CountsStamped, StaleCounted, AlarmsPaid, Alarming, Decided,
                                StampsApart, Stamping, Starting, Repairing

\* The operator's two switches: only the state, the flag, the alarm and the log
\* change, and a time stamp is taken.
LEMMA SwitchKeeps ==
  ASSUME MonInv, Disable \/ Enable
  PROVE  MonInv'
<1>0. /\ node \in NodeRow /\ node.state \in NodeState /\ node.fails \in 0..MaxClock
      /\ node.succ \in 0..MaxClock /\ node.host \in 0..MaxFaults
      /\ clock \in 0..MaxClock /\ due \in Nat /\ alarms \in 0..MaxClock /\ lost \in 0..(MaxClock + MaxFaults)
      /\ faults \in 0..MaxFaults /\ Cardinality(Checkers) \in Nat /\ MaxClock \in Nat
  BY Columns DEF MonInv
<1>1. PICK st \in NodeState, en \in BOOLEAN :
        /\ node' = [node EXCEPT !.enabled = en, !.state = st]
        /\ mlease' \in {mlease, None}
        /\ alarms' \in {0, alarms} /\ (alarms' = 0 \/ st = node.state \/ ~Alarming)
        /\ clock < MaxClock /\ clock' = clock + 1
        /\ faults' \in {faults, faults + 1} /\ faults' \in 0..MaxFaults
        /\ events' = events \cup {Event(clock + 1, "other")} /\ UNCHANGED <<chk, repair, due, lost>>
  <2>1. CASE Disable
    <3>1. faults' \in 0..MaxFaults /\ faults' = faults + 1
      BY <1>0, <2>1, Columns DEF Disable, Misfortune, MonInv
    <3>2. /\ node' = [node EXCEPT !.enabled = FALSE, !.state = "DISABLED"] /\ mlease' = None
          /\ alarms' = 0 /\ clock < MaxClock /\ clock' = clock + 1
          /\ events' = events \cup {Event(clock + 1, "other")} /\ UNCHANGED <<chk, repair, due, lost>>
      BY <2>1 DEF Disable, Stamped
    <3>3. "DISABLED" \in NodeState
      BY DEF NodeState
    <3> QED
      BY <3>1, <3>2, <3>3
  <2>2. CASE Enable
    <3>1. PICK st : st = IF node.state = "DISABLED" THEN "UNKNOWN" ELSE node.state
      OBVIOUS
    <3>2. /\ node' = [node EXCEPT !.enabled = TRUE, !.state = st]
          /\ clock < MaxClock /\ clock' = clock + 1
          /\ events' = events \cup {Event(clock + 1, "other")}
          /\ UNCHANGED <<mlease, chk, repair, due, alarms, lost, faults>>
      BY <2>2, <3>1 DEF Enable, Stamped
    <3>3. st \in NodeState /\ (st = node.state \/ ~Alarming)
      BY <1>0, <3>1 DEF NodeState, Monitored, Alarming
    <3> QED
      BY <1>0, <3>2, <3>3
  <2> QED
    BY <2>1, <2>2
<1>2. /\ node'.state = st /\ node'.fails = node.fails /\ node'.succ = node.succ
      /\ node'.host = node.host /\ node' \in NodeRow
  BY <1>0, <1>1 DEF NodeRow
<1>3. Judging' = Judging /\ UnderWay(node.host)' = UnderWay(node.host)
  BY <1>1, <1>2 DEF Judging, UnderWay, At
<1>4. MonTypeOK'
  <2>1. clock' \in 0..MaxClock /\ Event(clock + 1, "other") \in [at : 1..MaxClock, kind : Kinds]
    BY <1>0, <1>1 DEF Event, Kinds
  <2>2. alarms' \in 0..MaxClock
    BY <1>0, <1>1
  <2> QED
    BY <1>1, <1>2, <2>1, <2>2, LeaseTyped DEF MonInv, MonTypeOK, NodeRow
<1>5. CountsStamped' /\ StaleCounted'
  BY <1>0, <1>1, <1>2, <1>3, LeaseTyped DEF MonInv, CountsStamped, StaleCounted, Stamping, Starting, Repairing
<1>6. StampsApart' /\ Decided' /\ IsFiniteSet(events)'
  BY <1>1, <1>3, FreshEvent
<1>7. AlarmsPaid'
  BY <1>0, <1>1, <1>2 DEF MonInv, AlarmsPaid, Alarming
<1>8. SeenStamped'
  BY <1>0, <1>1, SeenStays DEF Stamping
<1> QED
  BY <1>4, <1>5, <1>6, <1>7, <1>8 DEF MonInv

\* A repair takes the node, an unsuccessful one gives it back as it was or FAILED.
LEMMA RepairKeeps ==
  ASSUME MonInv, (\E forced \in BOOLEAN : StartRepair(forced)) \/ TakeNode \/ FailRepair \/ StampRepair
  PROVE  MonInv'
<1>0. /\ node \in NodeRow /\ node.state \in NodeState /\ node.fails \in 0..MaxClock
      /\ node.succ \in 0..MaxClock /\ node.host \in 0..MaxFaults /\ node.enabled \in BOOLEAN
      /\ due \in Nat /\ alarms \in 0..MaxClock /\ lost \in 0..(MaxClock + MaxFaults)
      /\ clock \in 0..MaxClock /\ faults \in 0..MaxFaults /\ MaxFaults \in Nat /\ MaxClock \in Nat
      /\ repair.orig \in Monitored /\ repair.forced \in BOOLEAN /\ repair \in RepairRow
  BY Columns DEF MonInv
<1>1. NoRepair \in RepairRow /\ NoRepair.pc = "none"
  BY NoRows
<1>2. CASE \E forced \in BOOLEAN : StartRepair(forced)
  <2>1. PICK forced \in BOOLEAN : StartRepair(forced)
    BY <1>2
  <2>2. /\ repair.pc = "none" /\ faults < MaxFaults /\ faults' = faults + 1 /\ node.state \in Monitored
        /\ repair' = [NoRepair EXCEPT !.pc = "trigger", !.forced = forced, !.orig = node.state]
        /\ UNCHANGED <<node, mlease, chk, events, clock, due, alarms, lost>>
    BY <2>1 DEF StartRepair, Misfortune, CanForce, Monitored
  <2>3. repair' \in RepairRow /\ repair'.pc = "trigger" /\ repair'.orig = node.state
    BY <1>1, <2>2 DEF RepairRow
  <2>4. Judging' = Judging /\ UnderWay(node.host)' = UnderWay(node.host)
    BY <2>2 DEF Judging, UnderWay, At
  <2>5. MonTypeOK'
    BY <1>0, <2>2, <2>3, LeaseTyped DEF MonInv, MonTypeOK, RepairRow
  <2>6. CountsStamped' /\ StaleCounted'
    BY <1>0, <2>2, <2>3, <2>4, LeaseTyped
    DEF MonInv, CountsStamped, StaleCounted, Stamping, Starting, Repairing
  <2>7. AlarmsPaid'
    BY <2>2 DEF MonInv, AlarmsPaid, Alarming, Monitored
  <2>8. StampsApart' /\ Decided'
    BY <2>2, <2>3, <2>4 DEF MonInv, StampsApart, Decided
  <2>9. SeenStamped'
    BY <1>0, <2>2, <2>3, SeenStays DEF Stamping
  <2> QED
    BY <2>2, <2>5, <2>6, <2>7, <2>8, <2>9 DEF MonInv
<1>3. CASE TakeNode
  <2>1. /\ repair.pc = "trigger" /\ repair' = [repair EXCEPT !.pc = "running"]
        /\ node' = [node EXCEPT !.state = "REPLACING"]
        /\ lost' = IF node.state # repair.orig THEN lost + 1 ELSE lost
        /\ UNCHANGED <<mlease, chk, events, clock, due, alarms, faults>>
    BY <1>3 DEF TakeNode
  <2>2. repair' \in RepairRow /\ repair'.pc = "running" /\ repair'.orig = repair.orig
    BY <1>0, <2>1 DEF RepairRow
  <2>3. /\ node' \in NodeRow
        /\ node'.state = "REPLACING" /\ node'.fails = node.fails /\ node'.succ = node.succ
        /\ node'.host = node.host /\ node'.enabled = node.enabled
    BY <1>0, <2>1 DEF NodeRow, NodeState, InWorkflow
  <2>4. Judging' = Judging /\ UnderWay(node.host)' = UnderWay(node.host)
    BY <2>1, <2>3 DEF Judging, UnderWay, At
  <2>5. /\ lost' \in {lost, lost + 1} /\ (node.state # repair.orig => lost' = lost + 1)
        /\ Stamping = 0 /\ Stamping' = 0 /\ Starting = 1 /\ Starting' = 0 /\ Repairing = 1 /\ Repairing' = 1
    BY <2>1, <2>2 DEF Stamping, Starting, Repairing
  <2>6. CountsStamped' /\ StaleCounted'
    <3>1. Cardinality(Judging) \in Nat /\ Cardinality(Judging)' = Cardinality(Judging)
      <4>1. Cardinality(Judging) \in Nat
        BY <2>1, LeaseTyped DEF MonInv
      <4> QED
        BY <2>4, <4>1
    <3>2. /\ lost + Cardinality(Judging) + 1 <= clock + faults
          /\ node.succ + Cardinality(Judging) <= clock
      BY <1>0, <2>5, <3>1 DEF MonInv, CountsStamped
    <3> HIDE DEF Judging, Stamping, Starting, Repairing
    <3>3. CountsStamped'
      BY <1>0, <2>1, <2>3, <2>5, <3>1, <3>2 DEF MonInv, CountsStamped
    <3>4. lost' = 0 => lost = 0
      BY <1>0, <2>5
    <3>5. StaleCounted'
      BY <2>1, <2>3, <2>4, <3>4 DEF MonInv, StaleCounted
    <3> QED
      BY <3>3, <3>5
  <2>7. lost' \in 0..(MaxClock + MaxFaults)
    <3>1. Cardinality(Judging) \in Nat
      BY <2>1, LeaseTyped DEF MonInv
    <3>2. lost + Cardinality(Judging) + 1 <= clock + faults
      BY <1>0, <2>5, <3>1 DEF MonInv, CountsStamped
    <3> QED
      BY <1>0, <2>5, <3>1, <3>2
  <2>8. MonTypeOK'
    BY <1>0, <2>1, <2>2, <2>3, <2>7, LeaseTyped DEF MonInv, MonTypeOK, RepairRow, NodeRow
  <2>9. AlarmsPaid'
    <3>1. /\ alarms' = alarms /\ alarms <= lost + 1 /\ (~Alarming => alarms <= lost)
          /\ Alarming' <=> repair.orig = "FAILED"
      BY <2>1, <2>2, <2>3 DEF MonInv, AlarmsPaid, Alarming
    <3>2. CASE node.state # repair.orig
      BY <1>0, <2>5, <3>1, <3>2 DEF AlarmsPaid
    <3>3. CASE node.state = repair.orig
      <4>1. lost' = lost /\ (Alarming => Alarming')
        BY <1>0, <2>1, <3>1, <3>3 DEF Alarming, Monitored
      <4> QED
        BY <3>1, <4>1 DEF AlarmsPaid
    <3> QED
      BY <3>2, <3>3
  <2>10. StampsApart' /\ Decided'
    BY <2>1, <2>2, <2>4 DEF MonInv, StampsApart, Decided
  <2>11. SeenStamped'
    BY <1>0, <2>1, <2>5, SeenStays
  <2> QED
    BY <2>1, <2>6, <2>8, <2>9, <2>10, <2>11 DEF MonInv
<1>4. CASE FailRepair
  <2>1. PICK st : st = Restored(node.state, repair.forced, FALSE, repair.orig)
    OBVIOUS
  <2>2. /\ repair.pc = "running" /\ repair' = NoRepair /\ node' = [node EXCEPT !.state = st]
        /\ UNCHANGED <<mlease, chk, events, clock, due, alarms, lost, faults>>
    BY <1>4, <2>1 DEF FailRepair
  <2>3. st \in NodeState /\ (Alarming => st = "FAILED")
    BY <1>0, <2>1 DEF Restored, InWorkflow, Monitored, NodeState, Alarming
  <2>4. /\ node' \in NodeRow
        /\ node'.state = st /\ node'.fails = node.fails /\ node'.succ = node.succ
        /\ node'.host = node.host /\ node'.enabled = node.enabled
    BY <1>0, <2>2, <2>3 DEF NodeRow
  <2>5. Judging' = Judging /\ UnderWay(node.host)' = UnderWay(node.host)
    BY <2>2, <2>4 DEF Judging, UnderWay, At
  <2>6. MonTypeOK'
    BY <1>0, <1>1, <2>2, <2>4, LeaseTyped DEF MonInv, MonTypeOK, RepairRow, NodeRow
  <2>7. CountsStamped' /\ StaleCounted'
    BY <1>0, <1>1, <2>2, <2>4, <2>5, LeaseTyped
    DEF MonInv, CountsStamped, StaleCounted, Stamping, Starting, Repairing
  <2>8. AlarmsPaid'
    BY <2>2, <2>3, <2>4 DEF MonInv, AlarmsPaid, Alarming
  <2>9. StampsApart' /\ Decided'
    BY <1>1, <2>2, <2>5 DEF MonInv, StampsApart, Decided
  <2>10. SeenStamped'
    BY <1>0, <1>1, <2>2, SeenStays DEF Stamping
  <2> QED
    BY <2>2, <2>6, <2>7, <2>8, <2>9, <2>10 DEF MonInv
<1>5. CASE StampRepair
  <2>1. /\ repair.pc = "running" /\ clock < MaxClock /\ clock' = clock + 1
        /\ repair' = [repair EXCEPT !.pc = "commit", !.at = clock + 1, !.seen = Row]
        /\ UNCHANGED <<node, mlease, chk, events, due, alarms, lost, faults>>
    BY <1>5 DEF StampRepair, Stamped
  <2>2. clock' \in 0..MaxClock /\ clock + 1 \in 1..MaxClock /\ Row \in Rows
    BY <1>0, <2>1, RowTyped DEF MonInv
  <2>3. /\ repair' \in RepairRow
        /\ repair'.pc = "commit" /\ repair'.orig = repair.orig /\ repair'.at = clock + 1
    BY <1>0, <2>1, <2>2 DEF RepairRow
  <2>4. Judging' = Judging /\ UnderWay(node.host)' = UnderWay(node.host)
    BY <2>1 DEF Judging, UnderWay, At
  <2>5. MonTypeOK'
    BY <1>0, <2>1, <2>2, <2>3, LeaseTyped DEF MonInv, MonTypeOK, RepairRow
  <2>6. CountsStamped' /\ StaleCounted'
    BY <1>0, <2>1, <2>3, <2>4, LeaseTyped, Columns
    DEF MonInv, CountsStamped, StaleCounted, Stamping, Starting, Repairing
  <2>7. AlarmsPaid'
    BY <2>1, <2>3 DEF MonInv, AlarmsPaid, Alarming
  <2>8. StampsApart' /\ Decided'
    <3>1. /\ \A d \in Judging : chk[d].at \in 1..clock
          /\ \A e \in events : e.at \in 1..clock
          /\ \A d, g \in Judging : d # g => chk[d].at # chk[g].at
          /\ \A e, f \in events : e.at = f.at => e = f
          /\ \A e \in events, d \in Judging : chk[d].at # e.at
      BY DEF MonInv, StampsApart
    <3>2. \A n \in 1..clock : n \in 1..clock' /\ n # clock + 1
      BY <1>0, <2>1
    <3>3. Decided'
      BY <2>1, <2>4 DEF MonInv, Decided
    <3> QED
      BY <1>0, <2>1, <2>2, <2>3, <2>4, <3>1, <3>2, <3>3 DEF StampsApart
  <2>9. SeenStamped'
    BY <1>0, <2>1, <2>3, SeenStays DEF Stamping
  <2> QED
    BY <2>1, <2>5, <2>6, <2>7, <2>8, <2>9 DEF MonInv
<1> QED
  BY <1>2, <1>3, <1>4, <1>5

\* A finished repair leaves a new host, with clean counters unless the row has
\* changed since it was read; the success it starts with is the one the stamp
\* of its event stands for.
LEMMA CommitKeeps ==
  ASSUME MonInv, CommitRepair
  PROVE  MonInv'
<1>0. /\ node \in NodeRow /\ node.state \in NodeState /\ node.fails \in 0..MaxClock
      /\ node.succ \in 0..MaxClock /\ node.host \in 0..MaxFaults /\ node.enabled \in BOOLEAN
      /\ due \in Nat /\ alarms \in 0..MaxClock /\ lost \in 0..(MaxClock + MaxFaults)
      /\ clock \in 0..MaxClock /\ faults \in 0..MaxFaults /\ MaxFaults \in Nat /\ MaxClock \in Nat
      /\ Cardinality(Checkers) \in Nat /\ repair.seen \in Rows
  BY Columns DEF MonInv
<1>1. PICK h, f, s, st, l :
        /\ h = node.host + 1 /\ f = Over(repair.seen.fails, 0, node.fails)
        /\ s = IF repair.seen.succ = 0 THEN 1 ELSE node.succ
        /\ st = Over(repair.seen.state, "HEALTHY", node.state)
        /\ l = IF repair.seen # Row THEN lost + 1 ELSE 0
  OBVIOUS
<1>2. /\ repair.pc = "commit" /\ repair' = NoRepair
      /\ node' = [node EXCEPT !.state = st, !.host = h, !.fails = f, !.succ = s]
      /\ events' = events \cup {Event(repair.at, "repaired")}
      /\ due' = Cardinality(UnderWay(h)) /\ alarms' = 0 /\ lost' = l
      /\ UNCHANGED <<mlease, chk, clock, faults>>
  BY <1>1 DEF CommitRepair, Repaired
<1>3. Cardinality(Judging) \in Nat
  BY <1>2, LeaseTyped DEF MonInv
<1>4. /\ node.host + 1 <= faults /\ node.succ + Cardinality(Judging) + 1 <= clock
      /\ node.fails + Cardinality(Judging) <= clock /\ lost + Cardinality(Judging) + 1 <= clock + faults
      /\ repair.at \in 1..clock
  <2>1. Stamping = 1 /\ Starting = 0 /\ Repairing = 1
    BY <1>2 DEF Stamping, Starting, Repairing
  <2>2. /\ node.host + 1 <= faults /\ node.succ + Cardinality(Judging) + 1 <= clock
        /\ node.fails + Cardinality(Judging) <= clock
        /\ lost + Cardinality(Judging) + 1 + 0 <= clock + faults
    BY <2>1 DEF MonInv, CountsStamped
  <2>3. repair.at \in 1..clock
    BY <1>2 DEF MonInv, StampsApart
  <2> QED
    BY <1>0, <1>3, <2>2, <2>3
<1>5. /\ h \in 0..MaxFaults /\ h <= faults /\ s \in 0..MaxClock /\ s + Cardinality(Judging) <= clock
      /\ Cardinality(Judging) <= clock
  BY <1>0, <1>1, <1>2, <1>3, <1>4
<1>6. f \in {0, node.fails} /\ (repair.seen = Row => f = 0)
  BY <1>0, <1>1, RowTyped DEF MonInv, Over
<1>7. f \in 0..MaxClock /\ f + Cardinality(Judging) <= clock
  BY <1>0, <1>3, <1>4, <1>6
<1>8. l \in 0..(MaxClock + MaxFaults) /\ l + Cardinality(Judging) <= clock + faults /\ (l = 0 => f = 0)
  BY <1>0, <1>1, <1>3, <1>4, <1>6
<1>9. st \in NodeState
  BY <1>0, <1>1 DEF Over, NodeState, Monitored
<1>10. /\ node' \in NodeRow
       /\ node'.fails = f /\ node'.succ = s /\ node'.host = h /\ node'.enabled = node.enabled
  BY <1>0, <1>2, <1>5, <1>7, <1>9 DEF NodeRow
<1>11. Judging' = Judging /\ UnderWay(node.host)' = UnderWay(h)
  BY <1>2, <1>10 DEF Judging, UnderWay, At
<1>12. Cardinality(UnderWay(h)) \in Nat /\ Cardinality(UnderWay(h)) <= Cardinality(Checkers)
  BY ChecksCounted DEF UnderWay
<1>13. NoRepair \in RepairRow /\ NoRepair.pc = "none"
  BY NoRows
<1>14. MonTypeOK'
  <2>1. Event(repair.at, "repaired") \in [at : 1..MaxClock, kind : Kinds]
    BY <1>0, <1>4 DEF Event, Kinds
  <2>2. due' \in 0..(MaxClock + Cardinality(Checkers)) /\ alarms' \in 0..MaxClock
    BY <1>0, <1>2, <1>12
  <2> QED
    BY <1>2, <1>8, <1>10, <1>13, <2>1, <2>2, LeaseTyped DEF MonInv, MonTypeOK, NodeRow, RepairRow
<1>15. CountsStamped' /\ StaleCounted'
  <2>1. Stamping' = 0 /\ Starting' = 0 /\ Repairing' = 0
    BY <1>2, <1>13 DEF Stamping, Starting, Repairing
  <2>2. Cardinality(Judging)' = Cardinality(Judging)
    BY <1>11
  <2> HIDE DEF Judging, Stamping, Starting, Repairing
  <2> QED
    BY <1>0, <1>2, <1>3, <1>5, <1>7, <1>8, <1>10, <1>11, <1>12, <2>1, <2>2 DEF CountsStamped, StaleCounted
<1>16. AlarmsPaid'
  BY <1>0, <1>2, <1>8 DEF AlarmsPaid
<1>17. SeenStamped'
  BY <1>0, <1>2, <1>13, SeenStays
<1>18. StampsApart' /\ Decided'
  <2>1. Event(repair.at, "repaired").at = repair.at
    BY DEF Event
  <2>2. Decided'
    BY <1>2, <1>11 DEF MonInv, Decided
  <2> QED
    BY <1>2, <1>4, <1>11, <1>13, <2>1, <2>2 DEF MonInv, StampsApart
<1> QED
  BY <1>2, <1>14, <1>15, <1>16, <1>17, <1>18, LogGrows DEF MonInv

\* What a verdict makes of the counters it was applied to.
LEMMA Verdicted ==
  ASSUME NEW s \in Rows, NEW v \in Verdict
  PROVE  /\ Counted(s, v).state = s.state /\ s.fails \in Nat /\ s.succ \in Nat
         /\ v = "REACHABLE" => Counted(s, v).fails = 0 /\ Counted(s, v).succ = s.succ + 1
         /\ v # "REACHABLE" => Counted(s, v).fails = s.fails + 1 /\ Counted(s, v).succ = 0
<1>1. s \in [state : NodeState, fails : 0..MaxClock, succ : 0..MaxClock] /\ MaxClock \in Nat
  BY AlertingAssumption DEF Rows
<1>2. CASE v = "REACHABLE"
  BY <1>1, <1>2 DEF Counted
<1>3. CASE v # "REACHABLE"
  BY <1>1, <1>3 DEF Counted
<1> QED
  BY <1>2, <1>3

\* Monitoring moves a node between its own states; a failed node leaves FAILED
\* by recovering only, and only a reachable one is found healthy.
LEMMA ReachedTyped ==
  ASSUME NEW r, NEW v, r.state \in Monitored
  PROVE  /\ Reached(r, v) \in Monitored
         /\ r.state = "FAILED" => Reached(r, v) \in {"FAILED", "HEALTHY"}
         /\ v = "UNREACHABLE" /\ r.fails \in Nat => Reached(r, v) # "HEALTHY"
<1>1. FailureThreshold \in Nat
  BY AlertingAssumption
<1> QED
  BY <1>1 DEF Reached, Monitored

\* A change of health is worth one event at most, an alarm when it fails.
LEMMA HealthEvents ==
  ASSUME NEW from \in Monitored, NEW to \in Monitored
  PROVE  /\ HealthEvent(from, to) \in SUBSET Kinds
         /\ HealthEvent(from, to) = {} \/ \E k \in Kinds : HealthEvent(from, to) = {k}
         /\ "failed" \in HealthEvent(from, to) <=> to = "FAILED" /\ from # "FAILED"
BY DEF HealthEvent, Kinds, Monitored

\* A column written from the row read, and from a row that is still the same.
LEMMA Overwritten ==
  ASSUME NEW old, NEW new, NEW now
  PROVE  Over(old, new, now) \in {new, now} /\ (now = old => Over(old, new, now) = new)
         /\ (new # old => Over(old, new, now) = new)
BY DEF Over

\* A verdict is written: what it counts was paid for by its stamp, and what it
\* overwrites is put down as lost.
LEMMA ApplyKeeps ==
  ASSUME MonInv, NEW c \in Checkers, Apply(c)
  PROVE  MonInv'
<1>0. /\ node \in NodeRow /\ node.state \in NodeState /\ node.fails \in 0..MaxClock
      /\ node.succ \in 0..MaxClock /\ node.host \in 0..MaxFaults /\ node.enabled \in BOOLEAN
      /\ due \in Nat /\ alarms \in 0..MaxClock /\ lost \in 0..(MaxClock + MaxFaults)
      /\ clock \in 0..MaxClock /\ faults \in 0..MaxFaults /\ MaxFaults \in Nat /\ MaxClock \in Nat
      /\ Cardinality(Checkers) \in Nat /\ chk[c] \in CheckRow
  BY Columns DEF MonInv
<1>1. PICK v, s, r, to, kinds, at, host :
        /\ v = chk[c].verdict /\ s = chk[c].seen /\ r = Counted(s, v) /\ to = Reached(r, v)
        /\ kinds = HealthEvent(s.state, to) /\ at = chk[c].at /\ host = chk[c].host
  OBVIOUS
<1>2. v \in Verdict /\ s \in Rows /\ at \in 0..MaxClock
  BY <1>0, <1>1 DEF CheckRow
<1> DEFINE done == [NoCheck EXCEPT !.pc = "release"]
<1>3. done \in CheckRow /\ done.pc = "release"
  BY ReleaseRow
<1>4. /\ At(c, "apply") /\ chk' = [chk EXCEPT ![c] = done] /\ UNCHANGED <<mlease, repair, clock, faults>>
  BY DEF Apply, Done
<1> HIDE DEF done
<1>5. /\ Judging' = Judging \ {c} /\ chk' \in [Checkers -> CheckRow] /\ chk'[c] = done
      /\ \A h : {d \in Checkers : chk'[d].pc \in {"probe", "read", "apply"} /\ chk'[d].host # h}
                  = UnderWay(h) \ {c}
      /\ \A d \in Checkers \ {c} : chk'[d] = chk[d]
      /\ \A d \in Checkers : At(d, "apply")' => At(d, "apply") /\ chk'[d] = chk[d]
  BY <1>3, <1>4, CheckLeaves DEF MonInv
<1>6. \A d \in Checkers : mlease' = d => ~At(d, "idle")'
  BY <1>3, <1>4, <1>5 DEF MonInv, MonTypeOK, At
<1>7. CASE UNCHANGED <<node, events, due, alarms, lost>>
  <2>1. mlease' \in Checkers \cup {None, Dead} /\ faults' \in 0..MaxFaults /\ faults <= faults'
    BY <1>0, <1>4 DEF MonInv, MonTypeOK
  <2> QED
    BY <1>3, <1>4, <1>6, <1>7, <2>1, LeavesQuietly
<1>8. PICK st, f, u :
         /\ st = Over(s.state, to, node.state) /\ f = Over(s.fails, r.fails, node.fails)
         /\ u = Over(s.succ, r.succ, node.succ)
  OBVIOUS
<1>9. ASSUME s.state \in Monitored,
             node' = [node EXCEPT !.state = st, !.fails = f, !.succ = u],
             events' = events \cup {Event(at, k) : k \in kinds},
             due' = CASE v = "REACHABLE" -> Cardinality(UnderWay(node.host) \ {c})
                      [] v # "REACHABLE" /\ host = node.host -> due + 1
                      [] OTHER -> due,
             alarms' = CASE "failed" \in kinds -> alarms + 1
                         [] node'.state = "HEALTHY" -> 0
                         [] OTHER -> alarms,
             lost' = CASE s # Row -> lost + 1
                       [] s = Row /\ to = "HEALTHY" -> 0
                       [] OTHER -> lost
      PROVE  MonInv'
  <2>1. /\ r.state = s.state /\ s.fails \in Nat /\ s.succ \in Nat
        /\ v = "REACHABLE" => r.fails = 0 /\ r.succ = s.succ + 1
        /\ v # "REACHABLE" => r.fails = s.fails + 1 /\ r.succ = 0
    BY <1>1, <1>2, Verdicted
  <2>2. /\ to \in Monitored /\ (s.state = "FAILED" => to \in {"FAILED", "HEALTHY"})
        /\ v = "UNREACHABLE" => to # "HEALTHY"
    BY <1>1, <1>9, <2>1, ReachedTyped
  <2>3. /\ kinds \in SUBSET Kinds /\ (kinds = {} \/ \E k \in Kinds : kinds = {k})
        /\ "failed" \in kinds <=> to = "FAILED" /\ s.state # "FAILED"
    BY <1>1, <1>9, <2>2, HealthEvents
  <2>4. /\ at \in 1..clock /\ c \in Judging /\ v # "INDETERMINATE"
        /\ \A d \in Judging \ {c} : chk[d].at # at
        /\ \A e \in events : e.at # at
        /\ repair.pc = "commit" => repair.at # at
    BY <1>1, <1>4 DEF MonInv, StampsApart, Decided, Judging, At
  <2>5. /\ Cardinality(Judging) \in Nat /\ Cardinality(Judging \ {c}) = Cardinality(Judging) - 1
        /\ Cardinality(Judging \ {c}) \in Nat
        /\ Cardinality(UnderWay(node.host)) \in Nat /\ Cardinality(UnderWay(node.host) \ {c}) \in Nat
        /\ Cardinality(UnderWay(node.host) \ {c}) <= Cardinality(Checkers)
        /\ host # node.host => Cardinality(UnderWay(node.host) \ {c}) = Cardinality(UnderWay(node.host)) - 1
        /\ host = node.host => Cardinality(UnderWay(node.host) \ {c}) = Cardinality(UnderWay(node.host))
    <3>1. UnderWay(node.host) \ {c} \in SUBSET Checkers
      BY DEF UnderWay
    <3>2. c \in UnderWay(node.host) <=> host # node.host
      BY <1>1, <1>4 DEF UnderWay, At
    <3> QED
      BY <1>4, <3>1, <3>2, CheckCounts, ChecksCounted DEF MonInv
  <2>6. /\ node.fails + Cardinality(Judging) <= clock /\ node.succ + Cardinality(Judging) + Stamping <= clock
        /\ alarms + Cardinality(Judging) <= clock
        /\ lost + Cardinality(Judging) + Stamping + Starting <= clock + faults
        /\ due + Cardinality(Judging) <= clock + Cardinality(Checkers)
        /\ node.host + Repairing <= faults /\ Stamping \in {0, 1} /\ Starting \in {0, 1}
        /\ lost = 0 => node.fails + Cardinality(UnderWay(node.host)) <= due
        /\ alarms <= lost + 1 /\ (~Alarming => alarms <= lost)
    BY DEF MonInv, CountsStamped, StaleCounted, AlarmsPaid, Stamping, Starting
  <2>7. /\ s.fails + Cardinality(Judging) <= clock /\ s.succ + Cardinality(Judging) + Stamping <= clock
    BY <1>1, <1>4 DEF MonInv, SeenStamped
  <2>8. /\ st \in {to, node.state} /\ f \in {r.fails, node.fails} /\ u \in {r.succ, node.succ}
        /\ s = Row => s.state = node.state /\ s.fails = node.fails /\ st = to /\ f = r.fails
        /\ to # s.state => st = to
    BY <1>9, <1>8, Overwritten, RowTyped DEF MonInv
  <2>9. /\ f + Cardinality(Judging \ {c}) <= clock /\ u + Cardinality(Judging \ {c}) + Stamping <= clock
        /\ f \in 0..MaxClock /\ u \in 0..MaxClock
    <3>1. r.fails \in Nat /\ r.fails <= s.fails + 1 /\ r.succ \in Nat /\ r.succ <= s.succ + 1
      BY <2>1
    <3> QED
      BY <1>0, <2>1, <2>5, <2>6, <2>7, <2>8, <3>1
  <2>10. /\ node' \in NodeRow /\ node'.state = st /\ node'.fails = f /\ node'.succ = u
         /\ node'.host = node.host /\ node'.enabled = node.enabled
    <3>1. st \in NodeState
      BY <1>0, <2>2, <2>8 DEF NodeState
    <3> QED
      BY <1>0, <1>9, <2>9, <3>1 DEF NodeRow
  <2>11. /\ due' \in 0..(MaxClock + Cardinality(Checkers))
         /\ due' + Cardinality(Judging \ {c}) <= clock + Cardinality(Checkers)
         /\ s = Row /\ (lost = 0 \/ v = "REACHABLE")
              => f + Cardinality(UnderWay(node.host) \ {c}) <= due'
    <3>1. CASE v = "REACHABLE"
      BY <1>0, <1>9, <2>1, <2>5, <2>6, <2>8, <3>1
    <3>2. CASE v # "REACHABLE" /\ host = node.host
      BY <1>0, <1>9, <2>1, <2>5, <2>6, <2>8, <3>2
    <3>3. CASE v # "REACHABLE" /\ host # node.host
      BY <1>0, <1>9, <2>1, <2>5, <2>6, <2>8, <3>3
    <3> QED
      BY <3>1, <3>2, <3>3
  <2>12. /\ lost' \in {lost, lost + 1, 0}
         /\ lost' = 0 => s = Row /\ (lost = 0 \/ v = "REACHABLE")
    <3>1. to = "HEALTHY" => v = "REACHABLE"
      BY <1>2, <2>2, <2>4 DEF Verdict
    <3> QED
      BY <1>0, <1>9, <3>1
  <2>13. alarms' \in {alarms, alarms + 1, 0}
    BY <1>9
  <2>14. alarms' <= lost' + 1 /\ (~Alarming' => alarms' <= lost')
    <3>1. Alarming' <=> st = "FAILED" \/ (st = "REPLACING" /\ repair.orig = "FAILED")
      BY <1>4, <2>10 DEF Alarming
    <3>2. CASE "failed" \in kinds
      <4>1. alarms' = alarms + 1 /\ to = "FAILED" /\ s.state # "FAILED" /\ st = "FAILED"
        BY <1>9, <2>3, <2>8, <3>2
      <4>2. s = Row => ~Alarming /\ lost' = lost
        BY <1>9, <2>8, <4>1 DEF Alarming, Monitored
      <4>3. s # Row => lost' = lost + 1
        BY <1>9
      <4> QED
        BY <1>0, <2>6, <3>1, <4>1, <4>2, <4>3
    <3>3. CASE "failed" \notin kinds
      <4>1. alarms' = IF st = "HEALTHY" THEN 0 ELSE alarms
        BY <1>9, <2>10, <3>3
      <4>2. CASE s # Row
        <5>1. lost' = lost + 1
          BY <1>9, <4>2
        <5> QED
          BY <1>0, <2>6, <4>1, <5>1
      <4>3. CASE s = Row /\ to = "HEALTHY"
        <5>1. alarms' = 0 /\ lost' \in Nat
          BY <1>0, <2>8, <2>12, <4>1, <4>3
        <5>2. \A n \in Nat : 0 <= n + 1 /\ 0 <= n
          OBVIOUS
        <5>3. alarms' <= lost' + 1 /\ alarms' <= lost'
          BY <5>1, <5>2
        <5> QED
          BY <5>3
      <4>4. CASE s = Row /\ to # "HEALTHY"
        <5>1. lost' = lost /\ st # "HEALTHY" /\ alarms' = alarms
          BY <1>9, <2>8, <4>1, <4>4
        <5>2. Alarming => Alarming'
          BY <1>9, <2>2, <2>8, <3>1, <4>4 DEF Alarming, Monitored
        <5> QED
          BY <2>6, <5>1, <5>2
      <4> QED
        BY <4>2, <4>3, <4>4
    <3> QED
      BY <3>2, <3>3
  <2>15. UnderWay(node.host)' = UnderWay(node.host) \ {c}
    <3>1. node'.host = node.host
      BY <2>10
    <3>2. UnderWay(node.host)'
            = {d \in Checkers : chk'[d].pc \in {"probe", "read", "apply"} /\ chk'[d].host # node.host}
      BY <3>1 DEF UnderWay
    <3> QED
      BY <1>5, <3>2
  <2>16. /\ alarms' + Cardinality(Judging \ {c}) <= clock /\ alarms' \in 0..MaxClock
         /\ lost' + Cardinality(Judging \ {c}) + Stamping + Starting <= clock + faults
         /\ lost' \in 0..(MaxClock + MaxFaults)
    BY <1>0, <2>5, <2>6, <2>12, <2>13
  <2>17. MonTypeOK'
    <3>1. {Event(at, k) : k \in kinds} \subseteq [at : 1..MaxClock, kind : Kinds]
      BY <1>0, <2>3, <2>4 DEF Event
    <3>2. node' \in NodeRow /\ alarms' \in 0..MaxClock /\ lost' \in 0..(MaxClock + MaxFaults)
      BY <2>10, <2>16
    <3>3. events' \subseteq [at : 1..MaxClock, kind : Kinds]
      BY <1>9, <3>1 DEF MonInv, MonTypeOK
    <3> QED
      BY <1>4, <1>5, <1>6, <2>11, <3>2, <3>3 DEF MonInv, MonTypeOK, CheckRow, NodeRow
  <2>18. CountsStamped' /\ StaleCounted' /\ AlarmsPaid'
    <3>1. /\ Stamping' = Stamping /\ Starting' = Starting /\ Repairing' = Repairing
          /\ clock' = clock /\ faults' = faults
      BY <1>4 DEF Stamping, Starting, Repairing
    <3>2. Cardinality(Judging)' = Cardinality(Judging \ {c})
          /\ Cardinality(UnderWay(node.host))' = Cardinality(UnderWay(node.host) \ {c})
      BY <1>5, <2>15
    <3>3. CountsStamped' /\ AlarmsPaid'
      BY <2>6, <2>9, <2>10, <2>11, <2>14, <2>16, <3>1, <3>2 DEF CountsStamped, AlarmsPaid
    <3>4. StaleCounted'
      BY <2>10, <2>11, <2>12, <3>2 DEF StaleCounted
    <3> QED
      BY <3>3, <3>4
  <2>19. SeenStamped'
    <3>1. Stamping' = Stamping /\ Stamping \in Nat /\ clock' = clock /\ clock \in Nat
      BY <1>0, <1>4 DEF Stamping
    <3>2. Cardinality(Judging') = Cardinality(Judging) - 1
      BY <1>5, <2>5
    <3> QED
      BY <1>5, <2>5, <3>1, <3>2, SeenKept DEF MonInv
  <2>20. IsFiniteSet(events)' /\ (events' = events \/ \E k \in Kinds : events' = events \cup {Event(at, k)})
    <3>1. CASE kinds = {}
      BY <1>9, <3>1 DEF MonInv
    <3>2. ASSUME NEW k \in Kinds, kinds = {k} PROVE events' = events \cup {Event(at, k)}
      BY <1>9, <3>2
    <3> QED
      BY <2>3, <3>1, <3>2, LogGrows DEF MonInv
  <2>21. StampsApart' /\ Decided'
    <3>1. \A d \in Judging' : d \in Judging /\ d # c /\ chk'[d] = chk[d]
      BY <1>5 DEF Judging
    <3>2. ASSUME events' = events PROVE StampsApart'
      <4>1. StampsApart /\ clock' = clock /\ repair' = repair
        BY <1>4 DEF MonInv
      <4> QED
        BY <3>1, <3>2, <4>1 DEF StampsApart
    <3>3. ASSUME NEW k \in Kinds, events' = events \cup {Event(at, k)} PROVE StampsApart'
      <4>1. Event(at, k).at = at
        BY DEF Event
      <4>2. /\ \A e \in events' : e.at \in 1..clock /\ (\A d \in Judging' : chk'[d].at # e.at)
            /\ \A e, f2 \in events' : e.at = f2.at => e = f2
            /\ repair.pc = "commit" => \A e \in events' : e.at # repair.at
        BY <2>4, <3>1, <3>3, <4>1, <1>5 DEF MonInv, StampsApart
      <4> QED
        BY <1>4, <3>1, <4>2 DEF MonInv, StampsApart
    <3>4. Decided'
      BY <3>1 DEF MonInv, Decided
    <3> QED
      BY <2>20, <3>2, <3>3, <3>4
  <2> QED
    BY <2>17, <2>18, <2>19, <2>20, <2>21 DEF MonInv
<1>10. \/ UNCHANGED <<node, events, due, alarms, lost>>
      \/ /\ s.state \in Monitored
         /\ node' = [node EXCEPT !.state = st, !.fails = f, !.succ = u]
         /\ events' = events \cup {Event(at, k) : k \in kinds}
         /\ due' = CASE v = "REACHABLE" -> Cardinality(UnderWay(node.host) \ {c})
                     [] v # "REACHABLE" /\ host = node.host -> due + 1
                     [] OTHER -> due
         /\ alarms' = CASE "failed" \in kinds -> alarms + 1
                        [] node'.state = "HEALTHY" -> 0
                        [] OTHER -> alarms
         /\ lost' = CASE s # Row -> lost + 1
                      [] s = Row /\ to = "HEALTHY" -> 0
                      [] OTHER -> lost
  BY <1>1, <1>8 DEF Apply
<1> QED
  BY <1>7, <1>9, <1>10

\* Monitoring starts with nothing counted and nothing recorded.
LEMMA MonInitHolds == MonInit => MonInv
<1> SUFFICES ASSUME MonInit PROVE MonInv
  OBVIOUS
<1>1. /\ MaxClock \in Nat /\ MaxFaults \in Nat /\ Cardinality(Checkers) \in Nat /\ IsFiniteSet({})
      /\ Cardinality({}) = 0
  BY AlertingAssumption, ChecksCounted, FS_EmptySet
<1>2. Judging = {} /\ UnderWay(node.host) = {} /\ \A c \in Checkers : ~At(c, "apply")
  BY DEF MonInit, Judging, UnderWay, At, NoCheck
<1>3. MonTypeOK
  <2>1. chk \in [Checkers -> CheckRow]
    BY NoRows DEF MonInit
  <2>2. repair \in RepairRow
    BY NoRows DEF MonInit
  <2>3. node \in NodeRow
    BY <1>1 DEF MonInit, NodeRow, NodeState, Monitored
  <2>4. mlease \in Checkers \cup {None, Dead} /\ \A c \in Checkers : mlease = c => ~At(c, "idle")
    BY AlertingAssumption DEF MonInit
  <2>5. /\ clock \in 0..MaxClock /\ due \in 0..(MaxClock + Cardinality(Checkers)) /\ faults \in 0..MaxFaults
        /\ alarms \in 0..MaxClock /\ lost \in 0..(MaxClock + MaxFaults)
    BY <1>1 DEF MonInit
  <2> QED
    BY <2>1, <2>2, <2>3, <2>4, <2>5 DEF MonInit, MonTypeOK, CheckRow, NodeRow, RepairRow
<1>4. CountsStamped /\ StaleCounted /\ AlarmsPaid
  <2>1. /\ Cardinality(Judging) = 0 /\ Cardinality(UnderWay(node.host)) = 0
        /\ Stamping = 0 /\ Starting = 0 /\ Repairing = 0
    BY <1>1, <1>2 DEF MonInit, Stamping, Starting, Repairing, NoRepair
  <2>2. /\ node.fails = 0 /\ node.succ = 0 /\ node.host = 0 /\ due = 0 /\ alarms = 0 /\ lost = 0
        /\ clock = 0 /\ faults = 0
    BY DEF MonInit
  <2> QED
    BY <1>1, <2>1, <2>2 DEF CountsStamped, StaleCounted, AlarmsPaid
<1>5. SeenStamped /\ Decided /\ StampsApart
  BY <1>2 DEF MonInit, SeenStamped, Decided, StampsApart, NoRepair
<1> QED
  BY <1>1, <1>3, <1>4, <1>5 DEF MonInv, MonInit

\* Every step of monitoring keeps its invariant.
LEMMA MonNextKeeps == MonInv /\ MonNext => MonInv'
BY StartKeeps, ProbeKeeps, ReadKeeps, ApplyKeeps, RecordErrorKeeps, EndKeeps, ExpiryKeeps, SwitchKeeps,
   RepairKeeps, CommitKeeps DEF MonNext, Check

\* A step that leaves monitoring alone keeps it too.
LEMMA MonStutter == MonInv /\ UNCHANGED monitoring => MonInv'
BY DEF monitoring, MonInv, MonTypeOK, CountsStamped, SeenStamped, StaleCounted, AlarmsPaid, Alarming,
       Decided, StampsApart, Judging, Stamping, Starting, Repairing, UnderWay, At

------------------------------------------------------------------------------
(* The list of events after a cursor.                                       *)

\* A set of naturals has a least element.
LEMMA LeastNatural ==
  ASSUME NEW T \in SUBSET Nat, T # {}
  PROVE  \E m \in T : \A n \in T : m <= n
<1>1. PICK m \in T : \A n \in T : ~(<<n, m>> \in OpToRel(<, Nat))
  BY WFMin, NatLessThanWellFounded
<1>2. \A n \in T : ~(n < m)
  BY <1>1 DEF OpToRel
<1> QED
  BY <1>2

\* A part of the log that is not empty has a newest event.
LEMMA NewestExists ==
  ASSUME MonInv, NEW S \in SUBSET events, S # {}
  PROVE  \E e \in S : \A f \in S : f.at <= e.at
<1>1. clock \in Nat /\ \A e \in S : e.at \in 1..clock
  BY Columns DEF MonInv, StampsApart
<1> DEFINE T == {clock - e.at : e \in S}
<1>2. T \in SUBSET Nat /\ T # {}
  BY <1>1
<1>3. PICK m \in T : \A n \in T : m <= n
  <2> HIDE DEF T
  <2> QED
    BY <1>2, LeastNatural
<1>4. PICK e \in S : m = clock - e.at
  OBVIOUS
<1>5. \A f \in S : clock - e.at <= clock - f.at
  BY <1>3, <1>4
<1> QED
  BY <1>1, <1>5

\* What Listing(S) promises of a list s of S.
Lists(s, S) ==
  s \in [1..Cardinality(S) -> S] /\ \A i, j \in DOMAIN s : i < j => s[i].at < s[j].at

\* A part of the log can be listed: append its newest event to the list of the
\* others; the smallest part that could not be listed would be one that can.
LEMMA ListingExists ==
  ASSUME MonInv, NEW S \in SUBSET events
  PROVE  \E s : Lists(s, S)
<1> DEFINE Bad == {U \in SUBSET events : ~ \E s : Lists(s, U)}
           Sizes == {Cardinality(U) : U \in Bad}
<1>1. \A U \in SUBSET events : IsFiniteSet(U) /\ Cardinality(U) \in Nat
  BY FS_Subset, FS_CardinalityType DEF MonInv
<1>2. ASSUME Bad # {} PROVE FALSE
  <2>1. Sizes \in SUBSET Nat /\ Sizes # {}
    BY <1>1, <1>2
  <2>2. PICK n \in Sizes : \A m \in Sizes : n <= m
    <3> HIDE DEF Sizes
    <3> QED
      BY <2>1, LeastNatural
  <2>3. PICK U \in Bad : Cardinality(U) = n
    OBVIOUS
  <2>4. \A V \in SUBSET events : Cardinality(V) < n => \E s : Lists(s, V)
    <3> TAKE V \in SUBSET events
    <3> HAVE Cardinality(V) < n
    <3>1. Cardinality(V) \in Nat /\ n \in Nat
      BY <1>1, <2>1
    <3>2. V \in Bad => n <= Cardinality(V)
      BY <2>2
    <3>3. V \notin Bad
      BY <3>1, <3>2
    <3> QED
      BY <3>3
  <2>5. U \in SUBSET events /\ IsFiniteSet(U) /\ n \in Nat /\ Cardinality(U) = n /\ ~ \E s : Lists(s, U)
    BY <1>1, <2>3
  <2> HIDE DEF Bad, Sizes
  <2>6. CASE U = {}
    <3>1. n = 0
      BY <2>5, <2>6, FS_EmptySet
    <3>2. Lists([i \in 1..0 |-> i], U)
      BY <2>5, <2>6, <3>1 DEF Lists
    <3> QED
      BY <2>5, <3>2
  <2>7. CASE U # {}
    <3>1. PICK e \in U : \A f \in U : f.at <= e.at
      BY <2>5, <2>7, NewestExists
    <3>2. Cardinality(U \ {e}) = n - 1 /\ n # 0
      BY <2>5, <2>7, FS_RemoveElement, FS_EmptySet
    <3>3. PICK s : Lists(s, U \ {e})
      <4>1. U \ {e} \in SUBSET events /\ Cardinality(U \ {e}) < n
        BY <2>5, <3>2
      <4> QED
        BY <2>4, <4>1
    <3> DEFINE t == [i \in 1..n |-> IF i = n THEN e ELSE s[i]]
    <3>4. s \in [1..(n - 1) -> U \ {e}] /\ \A i, j \in 1..(n - 1) : i < j => s[i].at < s[j].at
      BY <3>2, <3>3 DEF Lists
    <3>5. \A f \in U \ {e} : f.at < e.at
      <4>1. \A f \in U : f.at \in 1..clock /\ (f.at = e.at => f = e)
        BY <2>5 DEF MonInv, StampsApart
      <4>2. clock \in Nat
        BY Columns DEF MonInv
      <4> QED
        BY <3>1, <4>1, <4>2
    <3>6. \A i \in 1..n : i # n => i \in 1..(n - 1) /\ t[i] = s[i] /\ s[i] \in U \ {e}
      BY <2>5, <3>2, <3>4
    <3>7. t[n] = e /\ n \in 1..n
      BY <2>5, <3>2
    <3>8. t \in [1..n -> U]
      BY <3>4, <3>6
    <3>9. \A i, j \in 1..n : i < j => t[i].at < t[j].at
      <4> TAKE i, j \in 1..n
      <4> HAVE i < j
      <4>1. i # n
        BY <2>5
      <4>2. CASE j = n
        BY <3>5, <3>6, <3>7, <4>1, <4>2
      <4>3. CASE j # n
        BY <3>4, <3>6, <4>1, <4>3
      <4> QED
        BY <4>2, <4>3
    <3>10. Lists(t, U)
      <4> HIDE DEF t
      <4> QED
        BY <2>5, <3>8, <3>9 DEF Lists
    <3> QED
      BY <2>5, <3>10
  <2> QED
    BY <2>6, <2>7
<1> QED
  BY <1>2

\* The notifier counts as monitoring does.
LEMMA SameCardinality == \A S : Bot!Cardinality(S) = Cardinality(S)
BY DEF Bot!Cardinality, Cardinality

\* Listing yields every event of a part of the log, once, in the order of the
\* time stamps.
LEMMA ListingSorts ==
  ASSUME MonInv, NEW S \in SUBSET events, NEW s, s = Bot!Listing(S)
  PROVE  /\ Cardinality(S) \in Nat /\ s \in [1..Cardinality(S) -> S]
         /\ \A i, j \in 1..Cardinality(S) : i < j => s[i].at < s[j].at
         /\ \A e \in S : \E i \in 1..Cardinality(S) : s[i] = e
<1>1. IsFiniteSet(S) /\ Cardinality(S) \in Nat
  BY FS_Subset, FS_CardinalityType DEF MonInv
<1>2. Lists(s, S)
  <2>1. \E t \in [1..Cardinality(S) -> S] : \A i, j \in DOMAIN t : i < j => t[i].at < t[j].at
    BY ListingExists DEF Lists
  <2>2. s = CHOOSE t \in [1..Cardinality(S) -> S] : \A i, j \in DOMAIN t : i < j => t[i].at < t[j].at
    BY SameCardinality DEF Bot!Listing
  <2> QED
    BY <2>1, <2>2 DEF Lists
<1>3. s \in [1..Cardinality(S) -> S] /\ \A i, j \in 1..Cardinality(S) : i < j => s[i].at < s[j].at
  BY <1>2 DEF Lists
<1>4. \A i, j \in 1..Cardinality(S) : s[i] = s[j] => i = j
  <2> TAKE i, j \in 1..Cardinality(S)
  <2> HAVE s[i] = s[j]
  <2>1. clock \in Nat /\ s[i].at \in 1..clock /\ s[j].at \in 1..clock
    <3>1. clock \in Nat
      BY Columns DEF MonInv
    <3>2. \A e \in events : e.at \in 1..clock
      BY DEF MonInv, StampsApart
    <3>3. s[i] \in events /\ s[j] \in events
      BY <1>3
    <3> QED
      BY <3>1, <3>2, <3>3
  <2>2. ~(i < j) /\ ~(j < i)
    BY <1>3, <2>1
  <2> QED
    BY <1>1, <2>2
<1>5. s \in Injection(1..Cardinality(S), S)
  BY <1>3, <1>4 DEF Injection, IsInjective
<1>6. Cardinality(1..Cardinality(S)) = Cardinality(S)
  BY <1>1, FS_Interval
<1>7. s \in Surjection(1..Cardinality(S), S)
  BY <1>1, <1>5, <1>6, FS_Injection
<1> QED
  BY <1>1, <1>3, <1>7 DEF Surjection

------------------------------------------------------------------------------
(* The inductive invariant of the notifier.                                 *)

\* The batch is of events ahead of the cursor, in the order of their stamps,
\* and leaves none out that stays in the notifier's way.
Batched ==
  /\ run.todo = <<>> <=> run.pc \in {"idle", "list"}
  /\ \A i \in 1..Len(run.todo) : cursor < run.todo[i].at
  /\ \A i, j \in 1..Len(run.todo) : i < j => run.todo[i].at < run.todo[j].at
  /\ \A e \in events, i \in 1..Len(run.todo) :
       cursor < e.at /\ e.at < run.todo[i].at
         => e \in skipped \/ \E j \in 1..Len(run.todo) : run.todo[j] = e

\* The event the cursor is about to be advanced to has been dealt with.
HeadHandled ==
  run.pc = "advance" => Head(run.todo) \in sent \/ Head(run.todo).kind \notin Notifiable

\* The cursor is the time stamp of an event of the log.
CursorKnown == cursor = 0 \/ \E e \in events : e.at = cursor

\* What was sent ahead of the cursor is not ahead of what is still to be sent.
SentInOrder ==
  \A d \in sent, e \in events :
    cursor < d.at /\ cursor < e.at /\ e.kind \in Notifiable /\ e \notin skipped => d.at <= e.at

IInv == MonInv /\ TypeOK /\ Batched /\ HeadHandled /\ CursorKnown /\ SentInOrder /\ PassedIsSent

\* The batch and the stamps, as the steps below need them.
LEMMA BatchTyped ==
  ASSUME TypeOK
  PROVE  /\ Len(run.todo) \in Nat /\ DOMAIN run.todo = 1..Len(run.todo) /\ run.todo \in Seq(events)
         /\ \A i \in 1..Len(run.todo) : run.todo[i] \in events
         /\ clock \in Nat /\ MaxClock \in Nat /\ clock <= MaxClock /\ cursor \in Nat
         /\ \A e \in events : e.at \in 1..MaxClock /\ e.kind \in Kinds
<1>1. run.todo \in Seq(events) /\ cursor \in 0..MaxClock /\ MonTypeOK
  BY DEF TypeOK
<1>2. Len(run.todo) \in Nat /\ DOMAIN run.todo = 1..Len(run.todo)
  BY <1>1, LenProperties
<1>3. \A i \in 1..Len(run.todo) : run.todo[i] \in events
  BY <1>1, <1>2, ElementOfSeq
<1>4. \A e \in events : e.at \in 1..MaxClock /\ e.kind \in Kinds
  <2>1. events \subseteq [at : 1..MaxClock, kind : Kinds]
    BY <1>1, Zenon DEF MonTypeOK
  <2> QED
    BY <2>1
<1>5. clock \in 0..MaxClock /\ MaxClock \in Nat
  BY <1>1, Columns
<1>6. clock \in Nat /\ clock <= MaxClock /\ cursor \in Nat
  <2>1. cursor \in 0..MaxClock
    BY <1>1
  <2>2. \A n \in 0..MaxClock : n \in Nat /\ n <= MaxClock
    BY <1>5
  <2> QED
    BY <1>5, <2>1, <2>2
<1> QED
  BY <1>1, <1>2, <1>3, <1>4, <1>5, <1>6

\* Events are only added to the log.
LEMMA LogKept == MonNext => events \subseteq events'
BY Zenon DEF MonNext, Check, StartCheck, Probe, ReadNode, Apply, RecordError, EndCheck, CrashCheck, LapseLease,
       ExpireLease, Disable, Enable, StartRepair, TakeNode, FailRepair, StampRepair, CommitRepair, Repaired

\* Monitoring commits an event while the notifier is anywhere: one behind the
\* notifier is among those it skips, any other is ahead of all it has listed.
LEMMA MonitoringStep ==
  ASSUME IInv, MonNext, UNCHANGED <<cursor, run, sent, sendFaults>>,
         skipped' = skipped \cup {e \in events' \ events : Passed(e.at)}
  PROVE  IInv'
<1>1. MonInv' /\ events \subseteq events'
  BY MonNextKeeps, LogKept DEF IInv
<1>2. /\ \A e \in events' : e.at \in Nat /\ e.at # 0
      /\ \A e, f \in events' : e.at = f.at => e = f
  BY <1>1, Columns DEF MonInv, StampsApart, MonTypeOK
<1>3. /\ Len(run.todo) \in Nat /\ DOMAIN run.todo = 1..Len(run.todo) /\ run.todo \in Seq(events)
      /\ \A i \in 1..Len(run.todo) : run.todo[i] \in events
      /\ cursor \in Nat
  BY BatchTyped DEF IInv
<1>4. TypeOK'
  <2>1. run.todo \in Seq(events')
    BY <1>1, <1>3, SeqMonotonic
  <2>2. run' \in [pc : {"idle", "list", "send", "advance"}, todo : Seq(events')]
    BY <2>1 DEF IInv, TypeOK
  <2>3. cursor' \in 0..MaxClock /\ sendFaults' \in 0..MaxSendFaults /\ sent' \subseteq events'
    BY <1>1 DEF IInv, TypeOK
  <2>4. skipped' \subseteq events'
    BY <1>1 DEF IInv, TypeOK
  <2> QED
    BY <1>1, <2>2, <2>3, <2>4 DEF TypeOK, MonInv
<1>5. ASSUME NEW e \in events', e \notin events, e \notin skipped'
      PROVE  /\ cursor < e.at /\ (\A d \in sent : d.at <= e.at)
             /\ \A i \in 1..Len(run.todo) : ~(e.at < run.todo[i].at)
  <2>1. ~Passed(e.at)
    BY <1>5
  <2>2. e.at # cursor
    BY <1>1, <1>2, <1>5 DEF IInv, CursorKnown
  <2>3. \A d \in sent : d.at \in Nat
    BY <1>1, <1>2 DEF IInv, TypeOK
  <2> QED
    BY <1>2, <1>3, <2>1, <2>2, <2>3 DEF Passed
<1>6. Batched'
  <2>1. ASSUME NEW e \in events', NEW i \in 1..Len(run.todo), cursor < e.at, e.at < run.todo[i].at
        PROVE  e \in skipped' \/ \E j \in 1..Len(run.todo) : run.todo[j] = e
    <3>1. CASE e \in events
      BY <2>1, <3>1 DEF IInv, Batched
    <3>2. CASE e \notin events
      BY <1>5, <2>1, <3>2
    <3> QED
      BY <3>1, <3>2
  <2> QED
    BY <2>1 DEF IInv, Batched
<1>7. HeadHandled' /\ CursorKnown'
  BY <1>1 DEF IInv, HeadHandled, CursorKnown
<1>8. SentInOrder'
  <2>1. ASSUME NEW d \in sent, NEW e \in events', cursor < d.at, cursor < e.at, e.kind \in Notifiable,
               e \notin skipped'
        PROVE  d.at <= e.at
    <3>1. CASE e \in events
      BY <2>1, <3>1 DEF IInv, SentInOrder
    <3>2. CASE e \notin events
      BY <1>5, <2>1, <3>2
    <3> QED
      BY <3>1, <3>2
  <2> QED
    BY <2>1 DEF SentInOrder
<1>9. PassedIsSent'
  <2>1. ASSUME NEW e \in events', e.kind \in Notifiable, e.at <= cursor
        PROVE  e \in sent \cup skipped'
    <3>1. CASE e \in events
      BY <2>1, <3>1 DEF IInv, PassedIsSent
    <3>2. CASE e \notin events
      BY <1>2, <1>3, <1>5, <2>1, <3>2
    <3> QED
      BY <3>1, <3>2
  <2> QED
    BY <2>1 DEF PassedIsSent
<1> QED
  BY <1>1, <1>4, <1>6, <1>7, <1>8, <1>9 DEF IInv

\* Steps of the notifier leave the log alone; an empty batch is no batch.
LEMMA NoBatch ==
  ASSUME IInv, UNCHANGED monitoring, run'.todo = <<>>, run'.pc \in {"idle", "list"},
         run' = [pc |-> run'.pc, todo |-> <<>>], CursorKnown', SentInOrder', PassedIsSent',
         cursor' \in 0..MaxClock, sent' \subseteq events, skipped' \subseteq events,
         sendFaults' \in 0..MaxSendFaults
  PROVE  IInv'
<1>1. MonInv' /\ events' = events
  BY MonStutter DEF IInv, monitoring
<1>2. Len(<<>>) = 0 /\ <<>> \in Seq(events)
  BY EmptySeq
<1>3. run' \in [pc : {"idle", "list", "send", "advance"}, todo : Seq(events')]
  BY <1>1, <1>2
<1>4. TypeOK'
  BY <1>1, <1>3 DEF TypeOK, MonInv
<1>5. Batched' /\ HeadHandled'
  BY <1>1, <1>2 DEF Batched, HeadHandled
<1> QED
  BY <1>1, <1>4, <1>5 DEF IInv

\* The first run skips what is in the log.
LEMMA InitializeStep ==
  ASSUME IInv, Bot!Initialize, UNCHANGED monitoring
  PROVE  IInv'
<1>1. PICK e : e = CHOOSE g \in events : \A f \in events : f.at <= g.at
  OBVIOUS
<1>2. /\ run.pc = "idle" /\ cursor' = e.at /\ skipped' = skipped \cup events /\ events # {}
      /\ UNCHANGED <<events, run, sent, sendFaults>>
  BY <1>1 DEF Bot!Initialize
<1>3. e \in events /\ \A f \in events : f.at <= e.at
  <2>1. \E g \in events : \A f \in events : f.at <= g.at
    BY <1>2, NewestExists DEF IInv
  <2> QED
    BY <1>1, <2>1
<1>4. e.at \in 1..MaxClock
  BY <1>3, BatchTyped DEF IInv
<1>5. run.todo = <<>> /\ run' = [pc |-> run'.pc, todo |-> <<>>]
  BY <1>2 DEF IInv, Batched, TypeOK
<1>6. CursorKnown' /\ SentInOrder' /\ PassedIsSent'
  BY <1>2, <1>3 DEF CursorKnown, SentInOrder, PassedIsSent
<1>7. cursor' \in 0..MaxClock /\ sent' \subseteq events /\ skipped' \subseteq events
      /\ sendFaults' \in 0..MaxSendFaults
  BY <1>2, <1>4, BatchTyped DEF IInv, TypeOK
<1> QED
  BY <1>2, <1>5, <1>6, <1>7, NoBatch

\* The batch is dropped, or asked for: a restart, a refused send, list_events.
LEMMA DropStep ==
  ASSUME IInv, UNCHANGED monitoring, UNCHANGED <<cursor, sent, skipped>>,
         sendFaults' \in 0..MaxSendFaults,
         run' = [pc |-> "idle", todo |-> <<>>] \/ run' = [pc |-> "list", todo |-> <<>>]
  PROVE  IInv'
<1>1. CursorKnown' /\ SentInOrder' /\ PassedIsSent'
  BY DEF IInv, CursorKnown, SentInOrder, PassedIsSent, monitoring
<1>2. cursor' \in 0..MaxClock /\ sent' \subseteq events /\ skipped' \subseteq events
  BY DEF IInv, TypeOK
<1>3. run'.todo = <<>> /\ run'.pc \in {"idle", "list"} /\ run' = [pc |-> run'.pc, todo |-> <<>>]
  OBVIOUS
<1> QED
  BY <1>1, <1>2, <1>3, NoBatch

\* The events after the cursor are listed, the first Batch of them kept.
LEMMA ListedStep ==
  ASSUME IInv, Bot!Listed, UNCHANGED monitoring
  PROVE  IInv'
<1> DEFINE S == {e \in events : e.at > cursor}
<1>1. PICK all, n : all = Bot!Listing(S) /\ n = Cardinality(S)
  OBVIOUS
<1>2. /\ n \in Nat /\ all \in [1..n -> S] /\ \A e \in S : \E i \in 1..n : all[i] = e
      /\ \A i, j \in 1..n : i < j => all[i].at < all[j].at
  <2>1. S \in SUBSET events
    OBVIOUS
  <2> HIDE DEF S
  <2> QED
    BY <1>1, <2>1, ListingSorts DEF IInv
<1>3. all \in Seq(events) /\ Len(all) = n
  BY <1>2
<1>4. PICK m : m = IF Len(all) < Batch THEN Len(all) ELSE Batch
  OBVIOUS
<1>5. /\ run.pc = "list" /\ UNCHANGED <<events, cursor, sent, skipped, sendFaults>>
      /\ run' = IF all = <<>> THEN [pc |-> "idle", todo |-> <<>>]
                ELSE [pc |-> "send", todo |-> SubSeq(all, 1, m)]
  BY <1>1, <1>4 DEF Bot!Listed, Bot!After, Bot!Idle
<1>6. CASE all = <<>>
  <2>1. sendFaults' \in 0..MaxSendFaults
    BY <1>5 DEF IInv, TypeOK
  <2> QED
    BY <1>5, <1>6, <2>1, DropStep
<1>7. CASE all # <<>>
  <2>1. n \in Nat \ {0} /\ m \in 1..n
    BY <1>2, <1>3, <1>4, <1>7, AlertingAssumption, EmptySeq
  <2>2. /\ SubSeq(all, 1, m) \in Seq(events) /\ Len(SubSeq(all, 1, m)) = m
        /\ \A i \in 1..m : SubSeq(all, 1, m)[i] = all[i]
    <3>1. \A i \in 1..m : all[i] \in events
      BY <1>2, <2>1
    <3> QED
      BY <2>1, <3>1, SubSeqProperties
  <2>3. PICK todo : todo = SubSeq(all, 1, m)
    OBVIOUS
  <2>4. /\ run' = [pc |-> "send", todo |-> todo] /\ todo \in Seq(events) /\ Len(todo) = m
        /\ \A i \in 1..m : todo[i] = all[i] /\ todo[i] \in S /\ i \in 1..n
    BY <1>2, <1>5, <1>7, <2>1, <2>2, <2>3
  <2>5. MonInv' /\ events' = events
    BY MonStutter DEF IInv, monitoring
  <2>6. TypeOK'
    BY <1>5, <2>4, <2>5 DEF IInv, TypeOK, MonInv
  <2>7. ASSUME NEW e \in events, NEW i \in 1..m, cursor < e.at, e.at < todo[i].at
        PROVE  \E j \in 1..m : todo[j] = e
    <3>1. cursor \in Nat /\ e.at \in Nat
      BY BatchTyped DEF IInv
    <3>2. PICK j \in 1..n : all[j] = e
      BY <1>2, <2>7, <3>1
    <3>3. all[i].at \in Nat /\ i \in 1..n
      BY <2>4, BatchTyped DEF IInv
    <3>4. ~(i < j) /\ i # j
      BY <1>2, <2>4, <2>7, <3>1, <3>2, <3>3
    <3>5. j \in 1..m
      BY <2>1, <3>2, <3>3, <3>4
    <3> QED
      BY <2>4, <3>2, <3>5
  <2>8. Batched'
    <3>1. todo # <<>>
      BY <2>1, <2>4, EmptySeq
    <3>2. \A i \in 1..m : cursor < todo[i].at
      BY <2>4, BatchTyped DEF IInv
    <3>3. \A i, j \in 1..m : i < j => todo[i].at < todo[j].at
      BY <1>2, <2>4
    <3>4. run'.todo = todo /\ run'.pc = "send"
      BY <2>4
    <3> QED
      BY <1>5, <2>4, <2>5, <2>7, <3>1, <3>2, <3>3, <3>4 DEF Batched
  <2>9. HeadHandled' /\ CursorKnown' /\ SentInOrder' /\ PassedIsSent'
    BY <1>5, <2>4, <2>5 DEF IInv, HeadHandled, CursorKnown, SentInOrder, PassedIsSent
  <2> QED
    BY <2>5, <2>6, <2>8, <2>9 DEF IInv
<1> QED
  BY <1>6, <1>7

\* A batch that is being handled has a head, its event nearest to the cursor.
LEMMA HeadOfBatch ==
  ASSUME IInv, run.pc \in {"send", "advance"}
  PROVE  /\ run.todo # <<>> /\ Len(run.todo) \in Nat \ {0} /\ Head(run.todo) = run.todo[1]
         /\ Head(run.todo) \in events /\ cursor < Head(run.todo).at
         /\ \A e \in events : cursor < e.at /\ e.at < Head(run.todo).at => e \in skipped
<1>1. run.todo # <<>>
  BY DEF IInv, Batched
<1>2. run.todo \in Seq(events) /\ Len(run.todo) \in Nat \ {0}
  BY <1>1, EmptySeq, BatchTyped DEF IInv
<1>3. Head(run.todo) = run.todo[1] /\ 1 \in 1..Len(run.todo) /\ run.todo[1] \in events
  BY <1>1, <1>2, ElementOfSeq
<1>4. ASSUME NEW e \in events, cursor < e.at, e.at < run.todo[1].at
      PROVE  e \in skipped
  <2>1. ASSUME NEW j \in 1..Len(run.todo) PROVE run.todo[j] # e
    <3>1. e.at \in Nat /\ run.todo[1].at \in Nat /\ run.todo[j].at \in Nat
      BY <1>3, BatchTyped DEF IInv
    <3>2. j = 1 \/ run.todo[1].at < run.todo[j].at
      BY <1>2, <1>3 DEF IInv, Batched
    <3> QED
      BY <1>4, <3>1, <3>2
  <2> QED
    BY <1>3, <1>4, <2>1 DEF IInv, Batched
<1> QED
  BY <1>1, <1>2, <1>3, <1>4 DEF IInv, Batched

\* The head of the batch is sent, passed over, or refused.
LEMMA SendStep ==
  ASSUME IInv, Bot!SendHead, UNCHANGED monitoring
  PROVE  IInv'
<1>1. PICK h : h = Head(run.todo)
  OBVIOUS
<1>2. run.pc = "send" /\ UNCHANGED <<events, cursor, skipped>>
  BY DEF Bot!SendHead
<1>3. /\ h \in events /\ cursor < h.at
      /\ \A e \in events : cursor < e.at /\ e.at < h.at => e \in skipped
  BY <1>1, <1>2, HeadOfBatch
<1>4. MonInv' /\ events' = events
  BY MonStutter DEF IInv, monitoring
<1>5. ASSUME sent' \in {sent, sent \cup {h}}, h \in sent' \/ h.kind \notin Notifiable,
             run' = [run EXCEPT !.pc = "advance"], UNCHANGED sendFaults
      PROVE  IInv'
  <2>1. run'.pc = "advance" /\ run'.todo = run.todo
        /\ run' \in [pc : {"idle", "list", "send", "advance"}, todo : Seq(events)]
    BY <1>5 DEF IInv, TypeOK
  <2>2. sent' \subseteq events /\ sent \subseteq sent'
    BY <1>3, <1>5 DEF IInv, TypeOK
  <2>3. TypeOK'
    BY <1>2, <1>4, <1>5, <2>1, <2>2 DEF IInv, TypeOK, MonInv
  <2>4. Batched' /\ HeadHandled' /\ CursorKnown' /\ PassedIsSent'
    BY <1>1, <1>2, <1>4, <1>5, <2>1, <2>2
       DEF IInv, Batched, HeadHandled, CursorKnown, PassedIsSent
  <2>5. SentInOrder'
    <3>1. ASSUME NEW d \in sent', NEW e \in events, cursor < d.at, cursor < e.at,
                 e.kind \in Notifiable, e \notin skipped
          PROVE  d.at <= e.at
      <4>1. CASE d \in sent
        BY <3>1, <4>1 DEF IInv, SentInOrder
      <4>2. CASE d = h
        BY <1>3, <3>1, <4>2, BatchTyped DEF IInv
      <4> QED
        BY <1>5, <4>1, <4>2
    <3> QED
      BY <1>2, <3>1, <1>4 DEF SentInOrder
  <2> QED
    BY <1>4, <2>3, <2>4, <2>5 DEF IInv
<1>6. ASSUME Bot!Failing, run' = Bot!Idle, UNCHANGED sent
      PROVE  IInv'
  <2>1. sendFaults' \in 0..MaxSendFaults
    BY <1>6, AlertingAssumption DEF Bot!Failing, IInv, TypeOK
  <2> QED
    BY <1>2, <1>6, <2>1, DropStep DEF Bot!Idle
<1> QED
  BY <1>1, <1>5, <1>6 DEF Bot!SendHead

\* The cursor advances to the head, which has been dealt with, and leaves
\* behind it only what was sent or skipped.
LEMMA AdvanceStep ==
  ASSUME IInv, Bot!Advance, UNCHANGED monitoring
  PROVE  IInv'
<1>1. PICK h : h = Head(run.todo)
  OBVIOUS
<1>2. /\ run.pc = "advance" /\ cursor' = h.at /\ UNCHANGED <<events, sent, skipped, sendFaults>>
      /\ run' = IF Len(run.todo) = 1 THEN [pc |-> "idle", todo |-> <<>>]
                ELSE [pc |-> "send", todo |-> Tail(run.todo)]
  BY <1>1 DEF Bot!Advance, Bot!Idle
<1>3. /\ h \in events /\ cursor < h.at /\ h = run.todo[1] /\ run.todo # <<>>
      /\ Len(run.todo) \in Nat \ {0}
      /\ \A e \in events : cursor < e.at /\ e.at < h.at => e \in skipped
  BY <1>1, <1>2, HeadOfBatch
<1>4. /\ h.at \in 1..MaxClock /\ cursor \in Nat /\ run.todo \in Seq(events)
      /\ \A e \in events : e.at \in 1..MaxClock
      /\ \A i \in 1..Len(run.todo) : run.todo[i] \in events
  BY <1>3, BatchTyped DEF IInv
<1>5. MonInv' /\ events' = events
  BY MonStutter DEF IInv, monitoring
<1>6. h \in sent \/ h.kind \notin Notifiable
  BY <1>1, <1>2 DEF IInv, HeadHandled
<1>7. CursorKnown'
  BY <1>2, <1>3, <1>5 DEF CursorKnown
<1>8. SentInOrder'
  BY <1>2, <1>3, <1>4, <1>5 DEF IInv, SentInOrder, TypeOK
<1>9. PassedIsSent'
  <2>1. ASSUME NEW e \in events, e.kind \in Notifiable, e.at <= h.at
        PROVE  e \in sent \cup skipped
    <3>1. CASE e.at <= cursor
      BY <2>1, <3>1 DEF IInv, PassedIsSent
    <3>2. CASE cursor < e.at /\ e.at < h.at
      BY <1>3, <3>2
    <3>3. CASE e.at = h.at
      <4>1. e = h
        BY <1>3, <3>3 DEF IInv, MonInv, StampsApart
      <4> QED
        BY <1>6, <2>1, <4>1
    <3>4. e.at \in Nat /\ cursor \in Nat /\ h.at \in Nat
      BY <1>4
    <3> QED
      BY <2>1, <3>1, <3>2, <3>3, <3>4
  <2> QED
    BY <1>2, <1>5, <2>1 DEF PassedIsSent
<1>10. /\ cursor' \in 0..MaxClock /\ sent' \subseteq events /\ skipped' \subseteq events
       /\ sendFaults' \in 0..MaxSendFaults
  BY <1>2, <1>4 DEF IInv, TypeOK
<1>11. CASE Len(run.todo) = 1
  <2>1. run' = [pc |-> "idle", todo |-> <<>>]
    BY <1>2, <1>11
  <2> QED
    BY <1>7, <1>8, <1>9, <1>10, <2>1, NoBatch
<1>12. CASE Len(run.todo) # 1
  <2>1. PICK todo : todo = Tail(run.todo)
    OBVIOUS
  <2>2. run' = [pc |-> "send", todo |-> todo] /\ run'.pc = "send" /\ run'.todo = todo
    BY <1>2, <1>12, <2>1
  <2>3. /\ todo \in Seq(events) /\ Len(todo) = Len(run.todo) - 1 /\ Len(todo) \in Nat \ {0}
        /\ \A i \in 1..Len(todo) : todo[i] = run.todo[i + 1] /\ i + 1 \in 1..Len(run.todo) /\ i + 1 # 1
    BY <1>3, <1>4, <1>12, <2>1, HeadTailProperties
  <2>4. TypeOK'
    BY <1>5, <1>10, <2>2, <2>3 DEF TypeOK, MonInv
  <2>5. \A i \in 1..Len(todo) : h.at < todo[i].at
    BY <1>3, <2>3 DEF IInv, Batched
  <2>6. \A i, j \in 1..Len(todo) : i < j => todo[i].at < todo[j].at
    BY <2>3 DEF IInv, Batched
  <2>7. ASSUME NEW e \in events, NEW i \in 1..Len(todo), h.at < e.at, e.at < todo[i].at
        PROVE  e \in skipped \/ \E j \in 1..Len(todo) : todo[j] = e
    <3>1. e \in skipped \/ \E j \in 1..Len(run.todo) : run.todo[j] = e
      <4>1. cursor < e.at
        BY <1>3, <1>4, <2>7
      <4> QED
        BY <2>3, <2>7, <4>1 DEF IInv, Batched
    <3>2. ASSUME NEW j \in 1..Len(run.todo), run.todo[j] = e
          PROVE  \E k \in 1..Len(todo) : todo[k] = e
      <4>1. j # 1
        BY <1>3, <1>4, <2>7, <3>2
      <4>2. j - 1 \in 1..Len(todo) /\ todo[j - 1] = run.todo[j]
        BY <2>3, <4>1
      <4> QED
        BY <3>2, <4>2
    <3> QED
      BY <3>1, <3>2
  <2>8. Batched'
    <3>1. todo # <<>>
      BY <2>3, EmptySeq
    <3> QED
      BY <1>2, <1>5, <2>2, <2>5, <2>6, <2>7, <3>1 DEF Batched
  <2>9. HeadHandled'
    BY <2>2 DEF HeadHandled
  <2> QED
    BY <1>5, <1>7, <1>8, <1>9, <2>4, <2>8, <2>9 DEF IInv
<1> QED
  BY <1>11, <1>12

\* Every step of the notifier keeps the invariant.
LEMMA BotStep ==
  ASSUME IInv, Bot!NotNext, UNCHANGED monitoring
  PROVE  IInv'
<1>1. CASE Bot!Initialize
  BY <1>1, InitializeStep
<1>2. CASE Bot!ListEvents
  BY <1>2, DropStep DEF Bot!ListEvents, IInv, TypeOK
<1>3. CASE Bot!Listed
  BY <1>3, ListedStep
<1>4. CASE Bot!SendHead
  BY <1>4, SendStep
<1>5. CASE Bot!Advance
  BY <1>5, AdvanceStep
<1>6. CASE Bot!RestartBot
  <2>1. sendFaults' \in 0..MaxSendFaults
    BY <1>6, AlertingAssumption DEF Bot!RestartBot, Bot!Failing, IInv, TypeOK
  <2> QED
    BY <1>6, <2>1, DropStep DEF Bot!RestartBot, Bot!Idle
<1> QED
  BY <1>1, <1>2, <1>3, <1>4, <1>5, <1>6 DEF Bot!NotNext, Bot!Notify

------------------------------------------------------------------------------
(* The theorems.                                                            *)

\* Monitoring and the notifier start with an empty log and no cursor.
LEMMA InitHolds == Init => IInv
<1> SUFFICES ASSUME Init PROVE IInv
  OBVIOUS
<1>1. MonInv /\ events = {}
  BY MonInitHolds DEF Init, MonInit
<1>2. /\ cursor = 0 /\ run = [pc |-> "idle", todo |-> <<>>] /\ sent = {} /\ skipped = {}
      /\ sendFaults = 0
  BY DEF Init, Bot!NotInit, Bot!Idle
<1>3. Len(<<>>) = 0 /\ <<>> \in Seq(events) /\ 0 \in 0..MaxClock /\ 0 \in 0..MaxSendFaults
  BY AlertingAssumption, EmptySeq
<1>4. TypeOK
  BY <1>1, <1>2, <1>3 DEF TypeOK, MonInv
<1>5. Batched /\ HeadHandled /\ CursorKnown /\ SentInOrder /\ PassedIsSent
  BY <1>1, <1>2, <1>3 DEF Batched, HeadHandled, CursorKnown, SentInOrder, PassedIsSent
<1> QED
  BY <1>1, <1>4, <1>5 DEF IInv

\* A step that changes nothing keeps the invariant.
LEMMA StutterKeeps == IInv /\ UNCHANGED vars => IInv'
BY MonStutter DEF vars, monitoring, IInv, TypeOK, MonInv, Batched, HeadHandled, CursorKnown, SentInOrder, PassedIsSent

\* The inductive invariant of the two processes around the event log: every
\* count of _check_and_persist is paid for by a time stamp, time stamps are of
\* one event each, and run_once's batch, cursor and history fit the log.
THEOREM Invariance == Spec => []IInv
<1>1. Init => IInv
  BY InitHolds
<1>2. IInv /\ [Next]_vars => IInv'
  BY MonitoringStep, BotStep, StutterKeeps DEF Next
<1> QED
  BY <1>1, <1>2, PTL DEF Spec

\* Counters, leases, hosts and batches keep their shape; in particular no host
\* is ever counted more failures than time stamps were taken (health.py).
THEOREM TypeCorrect == Spec => []TypeOK
<1>1. IInv => TypeOK
  BY DEF IInv
<1> QED
  BY <1>1, Invariance, PTL

\* NodeHealthCalculator counts against a new host at most the failures of the
\* checks that were under way when it was switched in, unless a write has been
\* lost since.
THEOREM CountersForget == Spec => []StaleResultsBounded
<1>1. IInv => StaleResultsBounded
  <2> SUFFICES ASSUME IInv PROVE StaleResultsBounded
    OBVIOUS
  <2>1. Cardinality(UnderWay(node.host)) \in Nat /\ node.fails \in Nat /\ due \in Nat
    BY ChecksCounted, Columns DEF IInv, MonInv, UnderWay
  <2> QED
    BY <2>1 DEF IInv, MonInv, StaleCounted, StaleResultsBounded
<1> QED
  BY <1>1, Invariance, PTL

\* TelegramEventNotifier: what the cursor has passed was sent, or skipped.
THEOREM NothingPassedUnsent == Spec => []PassedIsSent
<1>1. IInv => PassedIsSent
  BY DEF IInv
<1> QED
  BY <1>1, Invariance, PTL

\* _check_and_persist: a NODE_FAILED recorded again, before the node was healthy,
\* repaired or disabled, has cost another transaction its write, whatever checks
\* and repairs overlap.
THEOREM RepeatedAlarmsPaid == Spec => []RepeatsPaid
<1>1. IInv => RepeatsPaid
  BY DEF IInv, MonInv, AlarmsPaid, RepeatsPaid
<1> QED
  BY <1>1, Invariance, PTL

\* release_monitoring_lease compares tokens: a lease that one check holds is not
\* taken away by the step of another.
THEOREM LeaseKept == Spec => MonitoringLeaseKept
<1>1. IInv /\ [Next]_vars
        => [\A c \in Checkers : mlease = c /\ mlease' # c
              => \A d \in Checkers \ {c} : chk'[d] = chk[d]]_monitoring
  <2> SUFFICES ASSUME IInv, [Next]_vars, NEW c \in Checkers, mlease = c, mlease' # c,
                      NEW d \in Checkers \ {c}
               PROVE  chk'[d] = chk[d]
    OBVIOUS
  <2>1. MonNext
    BY DEF Next, vars, monitoring
  <2>2. chk \in [Checkers -> CheckRow] /\ c # None /\ c # Dead
    BY AlertingAssumption DEF IInv, MonInv, MonTypeOK, CheckRow
  <2> QED
    BY <2>1, <2>2, Zenon DEF MonNext, Check, StartCheck, Probe, ReadNode, Apply, RecordError, EndCheck, CrashCheck,
       LapseLease, ExpireLease, Disable, Enable, StartRepair, TakeNode, FailRepair, StampRepair, CommitRepair,
       Repaired, Done
<1> QED
  BY <1>1, Invariance, PTL DEF Spec, MonitoringLeaseKept

\* A step that sends is SendHead; what was sent before is behind the cursor or,
\* after a crash, no younger than what is ahead of it.
LEMMA SentBefore ==
  ASSUME IInv, [Next]_vars, NEW e \in events \ skipped, run.pc = "send", run'.pc = "advance",
         e = Head(run.todo), e.kind \in Notifiable, NEW d \in sent
  PROVE  d.at <= e.at
<1>1. cursor < e.at /\ e \in events
  BY HeadOfBatch
<1>2. d.at \in Nat /\ e.at \in Nat /\ cursor \in Nat
  BY BatchTyped DEF IInv, TypeOK
<1>3. CASE cursor < d.at
  BY <1>1, <1>3 DEF IInv, SentInOrder
<1> QED
  BY <1>1, <1>2, <1>3

\* Notifications go out in the order of the log; whatever crashes, only the last
\* one is repeated (docs/TELEGRAM.md:48).
THEOREM SentInLogOrder == Spec => OnlyLastRepeated
<1>1. IInv /\ [Next]_vars =>
        [\A e \in events \ skipped :
           run.pc = "send" /\ run'.pc = "advance" /\ e = Head(run.todo) /\ e.kind \in Notifiable
             => \A d \in sent : d.at <= e.at]_vars
  BY SentBefore
<1> QED
  BY <1>1, Invariance, PTL DEF Spec, OnlyLastRepeated

=============================================================================
