------------------------------ MODULE Alerting ------------------------------
(****************************************************************************)
(* Monitoring and the notifier around the event log: the worker process     *)
(* writes events with time stamps taken before the commit, the bot process  *)
(* reads the log after a cursor made of such time stamps.                   *)
(****************************************************************************)
EXTENDS Monitoring, Sequences

CONSTANTS Notifiable, Batch, MaxSendFaults

ASSUME AlertingAssumption ==
  /\ FailureThreshold \in Nat \ {0} /\ RecoveryThreshold \in Nat \ {0}
  /\ Probes \in Nat /\ MinSuccess \in Nat \ {0} /\ MaxClock \in Nat
  /\ MaxFaults \in Nat /\ MaxSendFaults \in Nat /\ Batch \in Nat \ {0}
  /\ IsFiniteSet(Checkers) /\ Notifiable \subseteq Kinds
  /\ None \notin Checkers /\ Dead \notin Checkers /\ None # Dead /\ None \notin Nat

VARIABLES cursor, run, sent, skipped, sendFaults

Bot == INSTANCE Notifier

vars == <<monitoring, cursor, run, sent, skipped, sendFaults>>

\* The notifier has gone past the time stamp of an event not yet committed.
Passed(at) ==
  at < cursor \/ \E e \in sent \cup {run.todo[i] : i \in DOMAIN run.todo} : at < e.at

\* Time stamps of the alerts that are still to be sent.
Pending == {e.at : e \in {e \in events \ (sent \cup skipped) : e.kind \in Notifiable}}

Init == MonInit /\ Bot!NotInit

Next ==
  \/ /\ MonNext /\ UNCHANGED <<cursor, run, sent, sendFaults>>
     /\ skipped' = skipped \cup {e \in events' \ events : Passed(e.at)}
  \/ Bot!NotNext /\ UNCHANGED monitoring

Spec == Init /\ [][Next]_vars
FairSpec == Spec /\ WF_vars(Bot!Notify /\ UNCHANGED monitoring)

------------------------------------------------------------------------------
(* Properties.                                                              *)

TypeOK ==
  /\ MonTypeOK
  /\ cursor \in 0..MaxClock /\ sent \subseteq events /\ skipped \subseteq events
  /\ run \in [pc : {"idle", "list", "send", "advance"}, todo : Seq(events)]
  /\ sendFaults \in 0..MaxSendFaults

\* Nothing the cursor has passed was left unsent, except what was in the log
\* before notifications were switched on and events committed behind it.
PassedIsSent ==
  \A e \in events : e.kind \in Notifiable /\ e.at <= cursor => e \in sent \cup skipped

\* Notifications go out in the order of the events, late ones apart, and
\* whatever crashes only the last one is ever repeated ("bot restarts do not
\* intentionally replay the entire audit log", docs/TELEGRAM.md:48).
OnlyLastRepeated ==
  [][\A e \in events \ skipped :
       run.pc = "send" /\ run'.pc = "advance" /\ e = Head(run.todo) /\ e.kind \in Notifiable
         => \A d \in sent : d.at <= e.at]_vars

\* An alert that is in the log ahead of the cursor is sent at last, refused
\* sends, restarts and other events in front of it notwithstanding.
AlertsDelivered ==
  \A t \in 1..MaxClock : (t \in Pending) ~> (t \notin Pending)
=============================================================================
