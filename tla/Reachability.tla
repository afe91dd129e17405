---------------------------- MODULE Reachability ----------------------------
(****************************************************************************)
(* The stage CHECKING_IP of a replacement: rounds of Check-Host requests    *)
(* from outside and from inside the monitored country, and the consensus    *)
(* that keeps the candidate, discards it or puts the decision off.          *)
(****************************************************************************)
EXTENDS Verdicts

CONSTANTS
  Rounds, Required,      \* replacement_reachability_rounds, ..._required_consensus
  OuterProbes, OuterMin, \* replacement_external_check_max_nodes, ..._min_success_nodes
  InnerProbes, InnerMin  \* check_host_max_nodes, check_host_min_success_nodes

VARIABLES
  cp,       \* checkpoint of the job
  pc,       \* step of its execution
  tally,    \* rounds done, clean and filtered ones; misled: rounds whose reports
            \* were wrong from too many check nodes
  up,       \* the candidate has booted
  blocked   \* its address is filtered in the monitored country

candidate == <<up, blocked>>

NoRounds == [round |-> 0, clean |-> 0, filtered |-> 0, misled |-> 0]

RInit ==
  /\ cp = "checking_ip" /\ pc = "idle" /\ tally = NoRounds
  /\ up = FALSE /\ blocked \in BOOLEAN

\* Whoever executes or resumes the stage starts from the first round.
FaultyStartRounds ==
  /\ cp = "checking_ip" /\ pc = "idle" /\ pc' = "outer" /\ UNCHANGED <<cp, tally, candidate>>
StartRounds ==
  /\ cp = "checking_ip" /\ pc = "idle"
  /\ pc' = "outer" /\ tally' = NoRounds /\ UNCHANGED <<cp, candidate>>

\* The end of a round: its verdict is counted, the lease renewed, and the next
\* round begins unless it was the last one.
EndRound(clean, filtered, misled) ==
  /\ tally' = [round |-> tally.round + 1,
               clean |-> tally.clean + (IF clean THEN 1 ELSE 0),
               filtered |-> tally.filtered + (IF filtered THEN 1 ELSE 0),
               misled |-> tally.misled + (IF misled THEN 1 ELSE 0)]
  /\ pc' = IF tally.round + 1 < Rounds THEN "outer" ELSE "decide"

\* Reports from ok check nodes say "connected", from bad ones "refused".  They
\* mislead when they are wrong from so many that the quorum hangs on them.
OuterMisled(ok) == ~up /\ ok >= OuterMin
InnerMisled(ok, bad) ==
  IF ~up \/ blocked THEN ok >= InnerMin ELSE InnerProbes - bad < InnerMin

\* verify_external; a candidate that is not reachable from outside is not
\* judged from inside.
OuterCheck ==
  /\ pc = "outer" /\ UNCHANGED <<cp, candidate>>
  /\ \E s \in Summaries(OuterProbes) :
       IF Evaluate(OuterProbes, OuterMin, s[1], s[2]) = "REACHABLE"
       THEN /\ pc' = "inner"
            /\ tally' = [tally EXCEPT !.misled = IF OuterMisled(s[1]) THEN @ + 1 ELSE @]
       ELSE EndRound(FALSE, FALSE, FALSE)

\* verify, from inside.
InnerCheck ==
  /\ pc = "inner" /\ UNCHANGED <<cp, candidate>>
  /\ \E s \in Summaries(InnerProbes) :
       LET v == Evaluate(InnerProbes, InnerMin, s[1], s[2]) IN
       EndRound(v = "REACHABLE", v = "UNREACHABLE", InnerMisled(s[1], s[2]))

\* Every round gets the same vote, however it ended; a round that did not judge
\* the candidate is no vote against it.
FaultyDecision ==
  CASE tally.clean >= Required -> "REACHABLE"
    [] tally.clean < Required /\ tally.round - tally.clean >= Required -> "UNREACHABLE"
    [] OTHER -> "INDETERMINATE"
Decision ==
  CASE tally.clean >= Required -> "REACHABLE"
    [] tally.clean < Required /\ tally.filtered >= Required -> "UNREACHABLE"
    [] OTHER -> "INDETERMINATE"

\* An inconclusive verification defers the job and keeps the candidate.
Decide ==
  /\ pc = "decide" /\ pc' = "idle" /\ UNCHANGED <<tally, candidate>>
  /\ cp' = CASE Decision = "REACHABLE" -> "ip_verified"
             [] Decision = "UNREACHABLE" -> "temp_cleanup"
             [] OTHER -> cp

\* A pause, an error of Check-Host and a crash all leave the stage; what was
\* counted is lost.
LeaveRounds ==
  /\ pc \in {"outer", "inner", "decide"} /\ pc' = "idle"
  /\ UNCHANGED <<cp, tally, candidate>>

Boot == ~up /\ up' = TRUE /\ UNCHANGED <<cp, pc, tally, blocked>>

RNext == StartRounds \/ OuterCheck \/ InnerCheck \/ Decide \/ LeaveRounds \/ Boot
=============================================================================
