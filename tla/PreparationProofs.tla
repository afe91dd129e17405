-------------------------- MODULE PreparationProofs --------------------------
(****************************************************************************)
(* Proofs about the preparation of a replacement server, for any number of  *)
(* rounds, probes and faults.                                               *)
(****************************************************************************)
EXTENDS Preparation, TLAPS

(* The verdict on a summary.                                                *)

\* A verdict never depends on answers that are not in yet: whichever way the
\* open probes go, they give it again (ReachabilityEvaluator.evaluate).
THEOREM VerdictsAreForced ==
  ASSUME NEW total \in Nat, NEW min \in Nat, NEW ok \in Nat, NEW bad \in Nat,
         ok + bad <= total, Evaluate(total, min, ok, bad) # "INDETERMINATE"
  PROVE  Forced(total, min, ok, bad, Evaluate(total, min, ok, bad))
<1>1. ASSUME NEW more \in 0..(total - ok - bad)
      PROVE  Evaluate(total, min, ok + more, total - ok - more)
             = Evaluate(total, min, ok, bad)
  BY SMT DEF Evaluate
<1> QED
  BY <1>1 DEF Forced

\* What the two verdicts take, over the summaries of a round.
LEMMA Quorums ==
  ASSUME NEW total \in Nat, NEW min \in Nat, NEW s \in Judge!Summaries(total)
  PROVE  /\ s[1] \in Nat /\ s[2] \in Nat
         /\ Judge!Evaluate(total, min, s[1], s[2]) = "REACHABLE" => s[1] >= min
         /\ Judge!Evaluate(total, min, s[1], s[2]) = "UNREACHABLE" => total - s[2] < min
BY SMT DEF Judge!Summaries, Judge!Evaluate

------------------------------------------------------------------------------
(* The inductive invariant.                                                 *)

Early == {"none", "pending", "waiting_ssh", "bootstrapping"}
Quiet == panel.svc # "up" \/ overlap \/ untidy

\* Where the execution is, by checkpoint and by deployment state.
Placed ==
  /\ pc \in {"outer", "inner", "decide"} => cp = "checking_ip" /\ tally.round <= Rounds
  /\ pc \in {"outer", "inner"} => tally.round < Rounds
  /\ pc \in Panel!Working => cp = "deploying"
  /\ cp \in {"checking_ip", "temp_cleanup"} => dep = "none"
  /\ pc = "accept" => dep = "pending"
  /\ pc = "wait" => dep = "waiting_ssh"
  /\ pc = "bootstrap" => dep = "bootstrapping"
  /\ pc \in {"probe", "install"} => dep = "installing"
  /\ pc \in {"verify", "read", "api"} => dep \in {"verifying", "succeeded"}

\* A vote that is wrong is a misled round, from the outer check on if the
\* candidate is not up.
Counted ==
  /\ pc \in {"outer", "inner"} => tally.misled <= 2 * tally.round + (IF pc = "inner" THEN 1 ELSE 0)
  /\ ~(up /\ ~blocked) => tally.clean <= tally.misled
  /\ ~(up /\ blocked) => tally.filtered <= tally.misled
  /\ pc = "inner" /\ ~up => tally.clean < tally.misled /\ tally.filtered < tally.misled

Judged ==
  cp # "checking_ip" /\ tally.misled < Required =>
    IF cp = "temp_cleanup" THEN up /\ blocked ELSE up /\ ~blocked

\* What is known of the panel while it is verified.
Witnessed ==
  /\ orphan => overlap
  /\ pc = "api" /\ ~overlap => config = panel.creds
  /\ pc = "record" => dep = "succeeded" /\ (overlap \/ panel = [svc |-> "up", creds |-> config])

\* No service runs where nobody would look for one.
Watched ==
  /\ dep \in Early => panel.svc # "up" \/ overlap
  /\ pc = "probe" /\ ~mayExist => panel.svc # "up" \/ overlap
  /\ pc \in {"install", "verify", "read", "api"} => mayExist
  /\ pc = "except" /\ ~mayExist => Quiet
  /\ dep = "failed" /\ pc # "rollback" => Quiet
  /\ pc = "fail_job" => Quiet

TypeInv ==
  /\ TypeOK
  /\ panel \in [svc : {"none", "up", "down"}, creds : Nat]

IInv ==
  /\ TypeInv /\ Placed /\ Counted /\ Judged /\ Witnessed /\ Watched
  /\ VerifiedPanelWorks /\ FailureLeavesNoService

\* The initial state satisfies the invariant.
LEMMA InitInv == Init => IInv
<1> SUFFICES ASSUME Init PROVE IInv
  OBVIOUS
<1>1. tally = [round |-> 0, clean |-> 0, filtered |-> 0, misled |-> 0] /\ up = FALSE
      /\ blocked \in BOOLEAN /\ cp = "checking_ip" /\ pc = "idle"
  BY DEF Init, Judge!RInit, Judge!NoRounds
<1>2. /\ dep = "none" /\ mayExist = FALSE /\ config = 0 /\ stored = 0
      /\ panel = [svc |-> "none", creds |-> 0] /\ orphan = FALSE /\ overlap = FALSE
      /\ untidy = FALSE /\ faults = 0
  BY DEF Init, Panel!DInit
<1>3. TypeInv
  <2>1. tally \in [round : 0..Rounds, clean : 0..Rounds, filtered : 0..Rounds,
                   misled : 0..(2 * Rounds)]
    BY <1>1, PreparationAssumption, SMT
  <2>2. tally.clean + tally.filtered <= tally.round
    BY <1>1, SMT
  <2>3. panel \in [svc : {"none", "up", "down"}, creds : Nat] /\ panel.creds = 0
    BY <1>2, SMT
  <2>4. config \in 0..panel.creds /\ stored \in 0..panel.creds /\ faults \in 0..MaxFaults
    BY <1>2, <2>3, PreparationAssumption, SMT
  <2> QED
    BY <1>1, <1>2, <2>1, <2>2, <2>3, <2>4 DEF TypeInv, TypeOK, Panel!DeploymentState
<1>4. Placed /\ Counted /\ Judged
  BY <1>1, <1>2, PreparationAssumption, SMT DEF Placed, Counted, Judged, Panel!Working
<1>5. Witnessed /\ Watched /\ VerifiedPanelWorks /\ FailureLeavesNoService
  BY <1>1, <1>2, SMT
  DEF Witnessed, Watched, VerifiedPanelWorks, FailureLeavesNoService, Quiet, Early
<1> QED
  BY <1>3, <1>4, <1>5 DEF IInv

------------------------------------------------------------------------------
(* The steps of Reachability.                                               *)

\* The rounds of a candidate begin with nothing counted.
LEMMA InvStartRounds ==
  ASSUME IInv, Judge!StartRounds, UNCHANGED deploying
  PROVE  IInv'
BY PreparationAssumption, SMTT(60)
DEF Judge!StartRounds, Judge!NoRounds, Judge!candidate, deploying, IInv, TypeInv, TypeOK,
    Placed, Counted, Judged, Witnessed, Watched,
    VerifiedPanelWorks, FailureLeavesNoService, Quiet, Early, Panel!DeploymentState,
    Panel!Working

\* A round ends, and what it added to the counts.
LEMMA RoundEnds ==
  ASSUME IInv, pc \in {"outer", "inner"}, UNCHANGED <<cp, up, blocked>>, UNCHANGED deploying,
         NEW clean \in BOOLEAN, NEW filtered \in BOOLEAN, NEW misled \in BOOLEAN,
         ~(clean /\ filtered), pc = "outer" => ~clean /\ ~filtered /\ ~misled,
         clean /\ ~(up /\ ~blocked) => misled,
         filtered /\ up /\ ~blocked => misled,
         Judge!EndRound(clean, filtered, misled)
  PROVE  IInv'
<1> DEFINE c == IF clean THEN 1 ELSE 0
           f == IF filtered THEN 1 ELSE 0
           m == IF misled THEN 1 ELSE 0
<1>1. c \in 0..1 /\ f \in 0..1 /\ m \in 0..1 /\ c + f <= 1
  OBVIOUS
<1>2. /\ tally.round \in Nat /\ tally.clean \in Nat /\ tally.filtered \in Nat
      /\ tally.misled \in Nat /\ Rounds \in Nat /\ Required \in Nat /\ tally.round < Rounds
      /\ tally.clean + tally.filtered <= tally.round
  BY PreparationAssumption, SMT DEF IInv, TypeInv, TypeOK, Placed
<1>3. tally' = [round |-> tally.round + 1, clean |-> tally.clean + c,
                filtered |-> tally.filtered + f, misled |-> tally.misled + m]
  BY DEF Judge!EndRound
<1>4. /\ tally'.round = tally.round + 1 /\ tally'.clean = tally.clean + c
      /\ tally'.filtered = tally.filtered + f /\ tally'.misled = tally.misled + m
  BY <1>3
<1>5. /\ pc' \in {"outer", "decide"}
      /\ pc' = "outer" => tally.round + 1 < Rounds
  BY DEF Judge!EndRound
<1>6. cp = "checking_ip" /\ dep = "none"
  BY DEF IInv, Placed
<1>7. tally.misled <= 2 * tally.round + 1 /\ (pc = "outer" => tally.misled <= 2 * tally.round /\ m = 0)
  BY <1>2, SMT DEF IInv, Counted
<1> HIDE DEF c, f, m
<1>8. tally'.misled <= 2 * tally'.round /\ tally'.misled <= 2 * Rounds
  BY <1>1, <1>2, <1>4, <1>7, SMT
<1>9. TypeInv'
  <2>1. /\ tally' \in [round : 0..Rounds, clean : 0..Rounds, filtered : 0..Rounds,
                      misled : 0..(2 * Rounds)]
        /\ tally'.clean + tally'.filtered <= tally'.round
    BY <1>1, <1>2, <1>3, <1>4, <1>8, SMT
  <2> QED
    BY <1>5, <2>1 DEF IInv, TypeInv, TypeOK, deploying
<1>10. Placed'
  BY <1>2, <1>4, <1>5, <1>6, SMT DEF deploying, Placed, Panel!Working
<1>11. Counted'
  <2>1. ~(up /\ ~blocked) => tally.clean + c <= tally.misled + m
    <3>1. ~(up /\ ~blocked) => tally.clean <= tally.misled
      BY DEF IInv, Counted
    <3>2. ~(up /\ ~blocked) => c <= m
      BY SMT DEF c, m
    <3> QED
      BY <1>1, <1>2, <3>1, <3>2, SMT
  <2>2. ~(up /\ blocked) => tally.filtered + f <= tally.misled + m
    <3>1. ~(up /\ blocked) => tally.filtered <= tally.misled
      BY DEF IInv, Counted
    <3>2. up /\ ~blocked => f <= m
      BY SMT DEF f, m
    <3>3. pc = "inner" /\ ~up => tally.filtered + 1 <= tally.misled
      BY <1>2, SMT DEF IInv, Counted
    <3>4. pc = "outer" => f = 0
      BY DEF f
    <3> QED
      BY <1>1, <1>2, <3>1, <3>2, <3>3, <3>4, SMT DEF IInv, TypeInv, TypeOK
  <2>3. pc' # "inner"
        /\ tally'.misled <= 2 * tally'.round + (IF pc' = "inner" THEN 1 ELSE 0)
    <3>1. pc' # "inner"
      BY <1>5
    <3> QED
      BY <1>1, <1>2, <1>4, <1>8, <3>1, SMT
  <2>4. (~(up' /\ ~blocked') => tally'.clean <= tally'.misled)
        /\ (~(up' /\ blocked') => tally'.filtered <= tally'.misled)
    BY <1>4, <2>1, <2>2
  <2> QED
    BY <2>3, <2>4 DEF Counted
<1>12. Judged'
  BY <1>6 DEF Judged
<1>13. Witnessed' /\ Watched' /\ VerifiedPanelWorks' /\ FailureLeavesNoService'
  BY <1>5, <1>6, SMT
  DEF deploying, IInv, Witnessed, Watched, VerifiedPanelWorks, FailureLeavesNoService,
      Quiet, Early
<1> QED
  BY <1>9, <1>10, <1>11, <1>12, <1>13 DEF IInv

\* The check from outside Iran.
LEMMA InvOuterCheck ==
  ASSUME IInv, Judge!OuterCheck, UNCHANGED deploying
  PROVE  IInv'
<1>1. PICK s \in Judge!Summaries(OuterProbes) :
        IF Judge!Evaluate(OuterProbes, OuterMin, s[1], s[2]) = "REACHABLE"
        THEN /\ pc' = "inner"
             /\ tally' = [tally EXCEPT !.misled =
                            IF Judge!OuterMisled(s[1]) THEN @ + 1 ELSE @]
        ELSE Judge!EndRound(FALSE, FALSE, FALSE)
  BY DEF Judge!OuterCheck
<1>2. pc = "outer" /\ UNCHANGED <<cp, up, blocked>>
  BY DEF Judge!OuterCheck, Judge!candidate
<1>3. CASE Judge!Evaluate(OuterProbes, OuterMin, s[1], s[2]) # "REACHABLE"
  <2>1. Judge!EndRound(FALSE, FALSE, FALSE)
    BY <1>1, <1>3
  <2> QED
    BY <1>2, <2>1, RoundEnds
<1>4. CASE Judge!Evaluate(OuterProbes, OuterMin, s[1], s[2]) = "REACHABLE"
  <2> DEFINE m == IF up THEN 0 ELSE 1
  <2>1. s[1] >= OuterMin /\ s[1] \in Nat
    BY <1>4, Quorums, PreparationAssumption
  <2>2. /\ tally.round \in Nat /\ tally.clean \in Nat /\ tally.filtered \in Nat
        /\ tally.misled \in Nat /\ Rounds \in Nat /\ tally.round < Rounds
        /\ tally.clean + tally.filtered <= tally.round
        /\ tally.misled <= 2 * tally.round
    BY <1>2, PreparationAssumption, SMT DEF IInv, TypeInv, TypeOK, Placed, Counted
  <2>3. tally' = [tally EXCEPT !.misled = @ + m] /\ pc' = "inner"
    BY <1>1, <1>4, <2>1, <2>2, SMT DEF Judge!OuterMisled
  <2>4. /\ tally'.round = tally.round /\ tally'.clean = tally.clean
        /\ tally'.filtered = tally.filtered /\ tally'.misled = tally.misled + m
    BY <2>3, SMT DEF IInv, TypeInv, TypeOK
  <2>5. m \in 0..1 /\ (~up => m = 1)
    OBVIOUS
  <2>6. cp = "checking_ip" /\ dep = "none"
    BY <1>2 DEF IInv, Placed
  <2> HIDE DEF m
  <2>7. TypeInv'
    <3>1. /\ tally' \in [round : 0..Rounds, clean : 0..Rounds, filtered : 0..Rounds,
                         misled : 0..(2 * Rounds)]
          /\ tally'.clean + tally'.filtered <= tally'.round
      BY <2>2, <2>3, <2>4, <2>5, SMT DEF IInv, TypeInv, TypeOK
    <3> QED
      BY <1>2, <2>3, <3>1 DEF IInv, TypeInv, TypeOK, deploying
  <2>8. Placed'
    BY <1>2, <2>2, <2>3, <2>4, <2>6, SMT DEF deploying, Placed, Panel!Working
  <2>9. Counted' /\ Judged'
    BY <1>2, <2>2, <2>3, <2>4, <2>5, <2>6, SMT DEF IInv, Counted, Judged
  <2>10. Witnessed' /\ Watched' /\ VerifiedPanelWorks' /\ FailureLeavesNoService'
    BY <1>2, <2>3, <2>6, SMT
    DEF deploying, IInv, Witnessed, Watched, VerifiedPanelWorks, FailureLeavesNoService,
        Quiet, Early
  <2> QED
    BY <2>7, <2>8, <2>9, <2>10 DEF IInv
<1> QED
  BY <1>3, <1>4

\* The check from Iran.
LEMMA InvInnerCheck ==
  ASSUME IInv, Judge!InnerCheck, UNCHANGED deploying
  PROVE  IInv'
<1> DEFINE v(s) == Judge!Evaluate(InnerProbes, InnerMin, s[1], s[2])
<1>1. PICK s \in Judge!Summaries(InnerProbes) :
        Judge!EndRound(v(s) = "REACHABLE", v(s) = "UNREACHABLE", Judge!InnerMisled(s[1], s[2]))
  BY DEF Judge!InnerCheck
<1>2. pc = "inner" /\ UNCHANGED <<cp, up, blocked>>
  BY DEF Judge!InnerCheck, Judge!candidate
<1>3. /\ v(s) = "REACHABLE" => s[1] >= InnerMin
      /\ v(s) = "UNREACHABLE" => InnerProbes - s[2] < InnerMin
  BY Quorums, PreparationAssumption
<1>4. /\ v(s) = "REACHABLE" /\ ~(up /\ ~blocked) => Judge!InnerMisled(s[1], s[2])
      /\ v(s) = "UNREACHABLE" /\ up /\ ~blocked => Judge!InnerMisled(s[1], s[2])
  BY <1>3 DEF Judge!InnerMisled
<1>5. Judge!InnerMisled(s[1], s[2]) \in BOOLEAN
  <2>1. s[1] \in Nat /\ s[2] \in Nat
    BY Quorums, PreparationAssumption
  <2>2. (s[1] >= InnerMin) \in BOOLEAN /\ (InnerProbes - s[2] < InnerMin) \in BOOLEAN
    BY <2>1, PreparationAssumption, SMT
  <2> QED
    BY <2>2 DEF Judge!InnerMisled
<1>6. v(s) = "REACHABLE" => v(s) # "UNREACHABLE"
  OBVIOUS
<1> HIDE DEF v
<1> QED
  BY <1>1, <1>2, <1>4, <1>5, <1>6, RoundEnds

\* The counts become a verdict.
LEMMA InvDecide ==
  ASSUME IInv, Judge!Decide, UNCHANGED deploying
  PROVE  IInv'
<1>1. TypeInv'
  BY PreparationAssumption, SMTT(60) DEF Judge!Decide, Judge!Decision, Judge!NoRounds,
      Judge!candidate, deploying, IInv, TypeInv, TypeOK, Panel!DeploymentState,
      Panel!Working, Placed, Counted
<1>2. Placed'
  BY PreparationAssumption, SMTT(60) DEF Judge!Decide, Judge!Decision, Judge!NoRounds,
      Judge!candidate, deploying, IInv, Placed, Panel!Working, TypeInv, TypeOK, Judged
<1>3. Counted'
  BY PreparationAssumption, SMTT(60) DEF Judge!Decide, Judge!Decision, Judge!NoRounds,
      Judge!candidate, deploying, IInv, Counted, TypeInv, TypeOK, Placed, Panel!Working
<1>4. Judged'
  BY PreparationAssumption, SMTT(60) DEF Judge!Decide, Judge!Decision, Judge!NoRounds,
      Judge!candidate, deploying, IInv, Judged, TypeInv, TypeOK, Placed, Counted,
      Panel!Working
<1>5. Witnessed'
  BY PreparationAssumption, SMTT(60) DEF Judge!Decide, Judge!Decision, Judge!NoRounds,
      Judge!candidate, deploying, IInv, Witnessed, TypeInv, TypeOK, Placed,
      Panel!Working
<1>6. Watched'
  BY PreparationAssumption, SMTT(60) DEF Judge!Decide, Judge!Decision, Judge!NoRounds,
      Judge!candidate, deploying, IInv, Watched, Quiet, Early, TypeInv, TypeOK, Placed,
      Witnessed, Panel!Working
<1>7. VerifiedPanelWorks'
  BY PreparationAssumption, SMTT(60) DEF Judge!Decide, Judge!Decision, Judge!NoRounds,
      Judge!candidate, deploying, IInv, VerifiedPanelWorks, Quiet, Early, TypeInv,
      TypeOK, Placed, Witnessed, Panel!Working
<1>8. FailureLeavesNoService'
  BY PreparationAssumption, SMTT(60) DEF Judge!Decide, Judge!Decision, Judge!NoRounds,
      Judge!candidate, deploying, IInv, FailureLeavesNoService, Quiet, TypeInv, TypeOK,
      Placed, Witnessed, Watched, Early, Panel!Working
<1> QED
  BY <1>1, <1>2, <1>3, <1>4, <1>5, <1>6, <1>7, <1>8 DEF IInv

\* The rounds are left without a verdict.
LEMMA InvLeaveRounds ==
  ASSUME IInv, Judge!LeaveRounds, UNCHANGED deploying
  PROVE  IInv'
<1>1. TypeInv'
  BY PreparationAssumption, SMTT(60) DEF Judge!LeaveRounds, Judge!NoRounds,
      Judge!candidate, deploying, IInv, TypeInv, TypeOK, Panel!DeploymentState,
      Panel!Working, Placed, Counted
<1>2. Placed'
  BY PreparationAssumption, SMTT(60) DEF Judge!LeaveRounds, Judge!NoRounds,
      Judge!candidate, deploying, IInv, Placed, Panel!Working, TypeInv, TypeOK, Judged
<1>3. Counted'
  BY PreparationAssumption, SMTT(60) DEF Judge!LeaveRounds, Judge!NoRounds,
      Judge!candidate, deploying, IInv, Counted, TypeInv, TypeOK, Placed, Panel!Working
<1>4. Judged'
  BY PreparationAssumption, SMTT(60) DEF Judge!LeaveRounds, Judge!NoRounds,
      Judge!candidate, deploying, IInv, Judged, TypeInv, TypeOK, Placed, Counted,
      Panel!Working
<1>5. Witnessed'
  BY PreparationAssumption, SMTT(60) DEF Judge!LeaveRounds, Judge!NoRounds,
      Judge!candidate, deploying, IInv, Witnessed, TypeInv, TypeOK, Placed,
      Panel!Working
<1>6. Watched'
  BY PreparationAssumption, SMTT(60) DEF Judge!LeaveRounds, Judge!NoRounds,
      Judge!candidate, deploying, IInv, Watched, Quiet, Early, TypeInv, TypeOK, Placed,
      Witnessed, Panel!Working
<1>7. VerifiedPanelWorks'
  BY PreparationAssumption, SMTT(60) DEF Judge!LeaveRounds, Judge!NoRounds,
      Judge!candidate, deploying, IInv, VerifiedPanelWorks, Quiet, Early, TypeInv,
      TypeOK, Placed, Witnessed, Panel!Working
<1>8. FailureLeavesNoService'
  BY PreparationAssumption, SMTT(60) DEF Judge!LeaveRounds, Judge!NoRounds,
      Judge!candidate, deploying, IInv, FailureLeavesNoService, Quiet, TypeInv, TypeOK,
      Placed, Witnessed, Watched, Early, Panel!Working
<1> QED
  BY <1>1, <1>2, <1>3, <1>4, <1>5, <1>6, <1>7, <1>8 DEF IInv

\* The server boots.
LEMMA InvBoot ==
  ASSUME IInv, Judge!Boot, UNCHANGED deploying
  PROVE  IInv'
BY PreparationAssumption, SMTT(60)
DEF Judge!Boot, Judge!NoRounds, Judge!candidate, deploying, IInv, TypeInv, TypeOK, Placed,
    Counted, Judged, Witnessed, Watched,
    VerifiedPanelWorks, FailureLeavesNoService, Quiet, Early, Panel!DeploymentState,
    Panel!Working

\* The job goes on to its deployment.
LEMMA InvStageIpVerified ==
  ASSUME IInv, Panel!StageIpVerified, UNCHANGED judging
  PROVE  IInv'
BY PreparationAssumption, SMTT(60)
DEF Panel!StageIpVerified, Panel!At, Panel!Enter, Panel!Raise, Panel!Fault, Panel!server,
    Panel!deployment,
    Panel!StepOf, Panel!Installed, judging, IInv, TypeInv, TypeOK, Placed, Counted, Judged,
    Witnessed, Watched,
    VerifiedPanelWorks, FailureLeavesNoService, Quiet, Early, Panel!DeploymentState,
    Panel!Working

\* An interrupted deployment is resumed from its row.
LEMMA InvResume ==
  ASSUME IInv, Panel!Resume, UNCHANGED judging
  PROVE  IInv'
<1>1. TypeInv'
  BY PreparationAssumption, SMTT(60) DEF Panel!Resume, Panel!At, Panel!Enter,
      Panel!Raise, Panel!Fault, Panel!server, Panel!deployment, Panel!StepOf,
      Panel!Installed, judging, IInv, TypeInv, TypeOK, Panel!DeploymentState,
      Panel!Working, Placed, Counted
<1>2. Placed'
  BY PreparationAssumption, SMTT(60) DEF Panel!Resume, Panel!At, Panel!Enter,
      Panel!Raise, Panel!Fault, Panel!server, Panel!deployment, Panel!StepOf,
      Panel!Installed, judging, IInv, Placed, Panel!Working, TypeInv, TypeOK, Judged
<1>3. Counted'
  BY PreparationAssumption, SMTT(60) DEF Panel!Resume, Panel!At, Panel!Enter,
      Panel!Raise, Panel!Fault, Panel!server, Panel!deployment, Panel!StepOf,
      Panel!Installed, judging, IInv, Counted, TypeInv, TypeOK, Placed, Panel!Working
<1>4. Judged'
  BY PreparationAssumption, SMTT(60) DEF Panel!Resume, Panel!At, Panel!Enter,
      Panel!Raise, Panel!Fault, Panel!server, Panel!deployment, Panel!StepOf,
      Panel!Installed, judging, IInv, Judged, TypeInv, TypeOK, Placed, Counted,
      Panel!Working
<1>5. Witnessed'
  BY PreparationAssumption, SMTT(60) DEF Panel!Resume, Panel!At, Panel!Enter,
      Panel!Raise, Panel!Fault, Panel!server, Panel!deployment, Panel!StepOf,
      Panel!Installed, judging, IInv, Witnessed, TypeInv, TypeOK, Placed, Panel!Working
<1>6. Watched'
  <2>1. CASE dep \in {"none", "failed"}
    <3>1. pc' = "except"
      BY <2>1, SMT DEF Panel!Resume, Panel!StepOf
    <3>2. Quiet
      BY <2>1, SMT DEF Panel!Resume, Panel!At, IInv, Watched, Quiet, Early
    <3> QED
      BY <3>1, <3>2, SMT DEF Panel!Resume, Panel!server, IInv, Watched, Quiet, Early
  <2>2. CASE dep \in {"pending", "waiting_ssh", "bootstrapping"}
    <3>1. pc' \in {"accept", "wait", "bootstrap"}
      BY <2>2, SMT DEF Panel!Resume, Panel!StepOf
    <3> QED
      BY <2>2, <3>1, SMT DEF Panel!Resume, Panel!server, IInv, Watched, Quiet, Early
  <2>3. CASE dep \in {"installing", "verifying", "succeeded"}
    <3>1. pc' \in {"probe", "verify"}
      BY <2>3, SMT DEF Panel!Resume, Panel!StepOf
    <3>2. mayExist'
      BY <2>3, Zenon DEF Panel!Resume
    <3> QED
      BY <2>3, <3>1, <3>2, SMT DEF Panel!Resume, Panel!server, IInv, Watched, Quiet, Early
  <2> QED
    BY <2>1, <2>2, <2>3 DEF IInv, TypeInv, TypeOK, Panel!DeploymentState
<1>7. VerifiedPanelWorks'
  BY PreparationAssumption, SMTT(60) DEF Panel!Resume, Panel!At, Panel!Enter,
      Panel!Raise, Panel!Fault, Panel!server, Panel!deployment, Panel!StepOf,
      Panel!Installed, judging, IInv, VerifiedPanelWorks, Quiet, Early, TypeInv, TypeOK,
      Placed, Witnessed, Panel!Working
<1>8. FailureLeavesNoService'
  BY PreparationAssumption, SMTT(60) DEF Panel!Resume, Panel!At, Panel!Enter,
      Panel!Raise, Panel!Fault, Panel!server, Panel!deployment, Panel!StepOf,
      Panel!Installed, judging, IInv, FailureLeavesNoService, Quiet, TypeInv, TypeOK,
      Placed, Witnessed, Watched, Early, Panel!Working
<1> QED
  BY <1>1, <1>2, <1>3, <1>4, <1>5, <1>6, <1>7, <1>8 DEF IInv

\* The deployment's row is accepted.
LEMMA InvAccept ==
  ASSUME IInv, Panel!Accept, UNCHANGED judging
  PROVE  IInv'
<1>1. TypeInv'
  BY PreparationAssumption, SMTT(60) DEF Panel!Accept, Panel!At, Panel!Enter,
      Panel!Raise, Panel!Fault, Panel!server, Panel!deployment, Panel!StepOf,
      Panel!Installed, judging, IInv, TypeInv, TypeOK, Panel!DeploymentState,
      Panel!Working, Placed, Counted
<1>2. Placed'
  BY PreparationAssumption, SMTT(60) DEF Panel!Accept, Panel!At, Panel!Enter,
      Panel!Raise, Panel!Fault, Panel!server, Panel!deployment, Panel!StepOf,
      Panel!Installed, judging, IInv, Placed, Panel!Working, TypeInv, TypeOK, Judged
<1>3. Counted'
  BY PreparationAssumption, SMTT(60) DEF Panel!Accept, Panel!At, Panel!Enter,
      Panel!Raise, Panel!Fault, Panel!server, Panel!deployment, Panel!StepOf,
      Panel!Installed, judging, IInv, Counted, TypeInv, TypeOK, Placed, Panel!Working
<1>4. Judged'
  BY PreparationAssumption, SMTT(60) DEF Panel!Accept, Panel!At, Panel!Enter,
      Panel!Raise, Panel!Fault, Panel!server, Panel!deployment, Panel!StepOf,
      Panel!Installed, judging, IInv, Judged, TypeInv, TypeOK, Placed, Counted,
      Panel!Working
<1>5. Witnessed'
  BY PreparationAssumption, SMTT(60) DEF Panel!Accept, Panel!At, Panel!Enter,
      Panel!Raise, Panel!Fault, Panel!server, Panel!deployment, Panel!StepOf,
      Panel!Installed, judging, IInv, Witnessed, TypeInv, TypeOK, Placed, Panel!Working
<1>6. Watched'
  BY PreparationAssumption, SMTT(60) DEF Panel!Accept, Panel!At, Panel!Enter,
      Panel!Raise, Panel!Fault, Panel!server, Panel!deployment, Panel!StepOf,
      Panel!Installed, judging, IInv, Watched, Quiet, Early, TypeInv, TypeOK, Placed,
      Witnessed, Panel!Working
<1>7. VerifiedPanelWorks'
  BY PreparationAssumption, SMTT(60) DEF Panel!Accept, Panel!At, Panel!Enter,
      Panel!Raise, Panel!Fault, Panel!server, Panel!deployment, Panel!StepOf,
      Panel!Installed, judging, IInv, VerifiedPanelWorks, Quiet, Early, TypeInv, TypeOK,
      Placed, Witnessed, Panel!Working
<1>8. FailureLeavesNoService'
  BY PreparationAssumption, SMTT(60) DEF Panel!Accept, Panel!At, Panel!Enter,
      Panel!Raise, Panel!Fault, Panel!server, Panel!deployment, Panel!StepOf,
      Panel!Installed, judging, IInv, FailureLeavesNoService, Quiet, TypeInv, TypeOK,
      Placed, Witnessed, Watched, Early, Panel!Working
<1> QED
  BY <1>1, <1>2, <1>3, <1>4, <1>5, <1>6, <1>7, <1>8 DEF IInv

\* SSH answers or the wait ends.
LEMMA InvWaitForSsh ==
  ASSUME IInv, Panel!WaitForSsh, UNCHANGED judging
  PROVE  IInv'
BY PreparationAssumption, SMTT(60)
DEF Panel!WaitForSsh, Panel!At, Panel!Enter, Panel!Raise, Panel!Fault, Panel!server,
    Panel!deployment,
    Panel!StepOf, Panel!Installed, judging, IInv, TypeInv, TypeOK, Placed, Counted, Judged,
    Witnessed, Watched,
    VerifiedPanelWorks, FailureLeavesNoService, Quiet, Early, Panel!DeploymentState,
    Panel!Working

\* The server is prepared.
LEMMA InvBootstrap ==
  ASSUME IInv, Panel!Bootstrap, UNCHANGED judging
  PROVE  IInv'
BY PreparationAssumption, SMTT(60)
DEF Panel!Bootstrap, Panel!At, Panel!Enter, Panel!Raise, Panel!Fault, Panel!server,
    Panel!deployment,
    Panel!StepOf, Panel!Installed, judging, IInv, TypeInv, TypeOK, Placed, Counted, Judged,
    Witnessed, Watched,
    VerifiedPanelWorks, FailureLeavesNoService, Quiet, Early, Panel!DeploymentState,
    Panel!Working

\* The look for an installation.
LEMMA InvProbeInstallation ==
  ASSUME IInv, Panel!ProbeInstallation, UNCHANGED judging
  PROVE  IInv'
BY PreparationAssumption, SMTT(60)
DEF Panel!ProbeInstallation, Panel!At, Panel!Enter, Panel!Raise, Panel!Fault, Panel!server,
    Panel!deployment,
    Panel!StepOf, Panel!Installed, judging, IInv, TypeInv, TypeOK, Placed, Counted, Judged,
    Witnessed, Watched,
    VerifiedPanelWorks, FailureLeavesNoService, Quiet, Early, Panel!DeploymentState,
    Panel!Working

\* The installer runs.
LEMMA InvInstall ==
  ASSUME IInv, Panel!Install, UNCHANGED judging
  PROVE  IInv'
<1>1. TypeInv'
  <2>1. panel' \in [svc : {"none", "up", "down"}, creds : Nat] /\ panel.creds <= panel'.creds
    BY SMTT(60) DEF Panel!Install, Panel!Installed, IInv, TypeInv
  <2>2. config \in Nat /\ stored \in Nat /\ panel.creds \in Nat
        /\ config <= panel.creds /\ stored <= panel.creds
    BY SMT DEF IInv, TypeInv, TypeOK
  <2>3. config' \in 0..panel'.creds /\ stored' \in 0..panel'.creds
    BY <2>1, <2>2, SMT DEF Panel!Install, Panel!Enter, Panel!Raise, Panel!Fault, Panel!server
  <2>4. faults' \in 0..MaxFaults
    BY PreparationAssumption, SMT DEF Panel!Install, Panel!Enter, Panel!Raise, Panel!Fault,
                                      Panel!server, Panel!Fault, IInv, TypeInv, TypeOK
  <2>5. orphan' \in BOOLEAN /\ overlap' \in BOOLEAN /\ untidy' \in BOOLEAN /\ mayExist' \in BOOLEAN
    BY Zenon DEF Panel!Install, Panel!Enter, Panel!Raise, Panel!Fault, Panel!server, Panel!At,
                 IInv, TypeInv, TypeOK
  <2>6. /\ dep' \in Panel!DeploymentState /\ cp' = cp
        /\ pc' \in {"outer", "inner", "decide", "idle"} \cup Panel!Working
    BY SMT DEF Panel!Install, Panel!Enter, Panel!Raise, Panel!Fault, Panel!server, Panel!At,
               Panel!Enter, Panel!Raise, IInv, TypeInv, TypeOK,
                Panel!DeploymentState, Panel!Working
  <2> QED
    BY <2>1, <2>3, <2>4, <2>5, <2>6 DEF TypeInv, TypeOK, judging, IInv
<1>2. Placed'
  BY PreparationAssumption, SMTT(60) DEF Panel!Install, Panel!At, Panel!Enter,
      Panel!Raise, Panel!Fault, Panel!server, Panel!deployment, Panel!StepOf,
      Panel!Installed, judging, IInv, Placed, Panel!Working, TypeInv, TypeOK, Judged
<1>3. Counted'
  BY PreparationAssumption, SMTT(60) DEF Panel!Install, Panel!At, Panel!Enter,
      Panel!Raise, Panel!Fault, Panel!server, Panel!deployment, Panel!StepOf,
      Panel!Installed, judging, IInv, Counted, TypeInv, TypeOK, Placed, Panel!Working
<1>4. Judged'
  BY PreparationAssumption, SMTT(60) DEF Panel!Install, Panel!At, Panel!Enter,
      Panel!Raise, Panel!Fault, Panel!server, Panel!deployment, Panel!StepOf,
      Panel!Installed, judging, IInv, Judged, TypeInv, TypeOK, Placed, Counted,
      Panel!Working
<1>5. Witnessed'
  BY PreparationAssumption, SMTT(60) DEF Panel!Install, Panel!At, Panel!Enter,
      Panel!Raise, Panel!Fault, Panel!server, Panel!deployment, Panel!StepOf,
      Panel!Installed, judging, IInv, Witnessed, TypeInv, TypeOK, Placed, Panel!Working
<1>6. Watched'
  BY PreparationAssumption, SMTT(60) DEF Panel!Install, Panel!At, Panel!Enter,
      Panel!Raise, Panel!Fault, Panel!server, Panel!deployment, Panel!StepOf,
      Panel!Installed, judging, IInv, Watched, Quiet, Early, TypeInv, TypeOK, Placed,
      Witnessed, Panel!Working
<1>7. VerifiedPanelWorks'
  BY PreparationAssumption, SMTT(60) DEF Panel!Install, Panel!At, Panel!Enter,
      Panel!Raise, Panel!Fault, Panel!server, Panel!deployment, Panel!StepOf,
      Panel!Installed, judging, IInv, VerifiedPanelWorks, Quiet, Early, TypeInv, TypeOK,
      Placed, Witnessed, Panel!Working
<1>8. FailureLeavesNoService'
  BY PreparationAssumption, SMTT(60) DEF Panel!Install, Panel!At, Panel!Enter,
      Panel!Raise, Panel!Fault, Panel!server, Panel!deployment, Panel!StepOf,
      Panel!Installed, judging, IInv, FailureLeavesNoService, Quiet, TypeInv, TypeOK,
      Placed, Witnessed, Watched, Early, Panel!Working
<1> QED
  BY <1>1, <1>2, <1>3, <1>4, <1>5, <1>6, <1>7, <1>8 DEF IInv

\* The installation is verified.
LEMMA InvVerify ==
  ASSUME IInv, Panel!Verify, UNCHANGED judging
  PROVE  IInv'
BY PreparationAssumption, SMTT(60)
DEF Panel!Verify, Panel!At, Panel!Enter, Panel!Raise, Panel!Fault, Panel!server, Panel!deployment,
    Panel!StepOf, Panel!Installed, judging, IInv, TypeInv, TypeOK, Placed, Counted, Judged,
    Witnessed, Watched,
    VerifiedPanelWorks, FailureLeavesNoService, Quiet, Early, Panel!DeploymentState,
    Panel!Working

\* The credentials are read.
LEMMA InvRead ==
  ASSUME IInv, Panel!Read, UNCHANGED judging
  PROVE  IInv'
BY PreparationAssumption, SMTT(60)
DEF Panel!Read, Panel!At, Panel!Enter, Panel!Raise, Panel!Fault, Panel!server, Panel!deployment,
    Panel!StepOf, Panel!Installed, judging, IInv, TypeInv, TypeOK, Placed, Counted, Judged,
    Witnessed, Watched,
    VerifiedPanelWorks, FailureLeavesNoService, Quiet, Early, Panel!DeploymentState,
    Panel!Working

\* The panel is called with them.
LEMMA InvCallApi ==
  ASSUME IInv, Panel!CallApi, UNCHANGED judging
  PROVE  IInv'
BY PreparationAssumption, SMTT(60)
DEF Panel!CallApi, Panel!At, Panel!Enter, Panel!Raise, Panel!Fault, Panel!server,
    Panel!deployment,
    Panel!StepOf, Panel!Installed, judging, IInv, TypeInv, TypeOK, Placed, Counted, Judged,
    Witnessed, Watched,
    VerifiedPanelWorks, FailureLeavesNoService, Quiet, Early, Panel!DeploymentState,
    Panel!Working

\* The deployment is recorded as verified.
LEMMA InvRecordDeployment ==
  ASSUME IInv, Panel!RecordDeployment, UNCHANGED judging
  PROVE  IInv'
BY PreparationAssumption, SMTT(60)
DEF Panel!RecordDeployment, Panel!At, Panel!Enter, Panel!Raise, Panel!Fault, Panel!server,
    Panel!deployment,
    Panel!StepOf, Panel!Installed, judging, IInv, TypeInv, TypeOK, Placed, Counted, Judged,
    Witnessed, Watched,
    VerifiedPanelWorks, FailureLeavesNoService, Quiet, Early, Panel!DeploymentState,
    Panel!Working

\* The failure is stored.
LEMMA InvStoreFailed ==
  ASSUME IInv, Panel!StoreFailed, UNCHANGED judging
  PROVE  IInv'
BY PreparationAssumption, SMTT(60)
DEF Panel!StoreFailed, Panel!At, Panel!Enter, Panel!Raise, Panel!Fault, Panel!server,
    Panel!deployment,
    Panel!StepOf, Panel!Installed, judging, IInv, TypeInv, TypeOK, Placed, Counted, Judged,
    Witnessed, Watched,
    VerifiedPanelWorks, FailureLeavesNoService, Quiet, Early, Panel!DeploymentState,
    Panel!Working

\* The installation is undone, or not.
LEMMA InvRollbackInstallation ==
  ASSUME IInv, Panel!RollbackInstallation, UNCHANGED judging
  PROVE  IInv'
<1>1. TypeInv'
  <2>1. panel' \in [svc : {"none", "up", "down"}, creds : Nat] /\ panel.creds <= panel'.creds
    BY SMTT(60) DEF Panel!RollbackInstallation, IInv, TypeInv
  <2>2. config \in Nat /\ stored \in Nat /\ panel.creds \in Nat
        /\ config <= panel.creds /\ stored <= panel.creds
    BY SMT DEF IInv, TypeInv, TypeOK
  <2>3. config' \in 0..panel'.creds /\ stored' \in 0..panel'.creds
    BY <2>1, <2>2, SMT DEF Panel!RollbackInstallation
  <2>4. faults' \in 0..MaxFaults
    BY PreparationAssumption, SMT DEF Panel!RollbackInstallation, Panel!Fault, IInv, TypeInv,
                                      TypeOK
  <2>5. orphan' \in BOOLEAN /\ overlap' \in BOOLEAN /\ untidy' \in BOOLEAN /\ mayExist' \in BOOLEAN
    BY Zenon DEF Panel!RollbackInstallation, Panel!At, IInv, TypeInv, TypeOK
  <2>6. /\ dep' \in Panel!DeploymentState /\ cp' = cp
        /\ pc' \in {"outer", "inner", "decide", "idle"} \cup Panel!Working
    BY SMT DEF Panel!RollbackInstallation, Panel!At, Panel!Enter, Panel!Raise, IInv, TypeInv,
               TypeOK,
                Panel!DeploymentState, Panel!Working
  <2> QED
    BY <2>1, <2>3, <2>4, <2>5, <2>6 DEF TypeInv, TypeOK, judging, IInv
<1>2. Placed'
  BY PreparationAssumption, SMTT(60) DEF Panel!RollbackInstallation, Panel!At,
      Panel!Enter, Panel!Raise, Panel!Fault, Panel!server, Panel!deployment,
      Panel!StepOf, Panel!Installed, judging, IInv, Placed, Panel!Working, TypeInv,
      TypeOK, Judged
<1>3. Counted'
  BY PreparationAssumption, SMTT(60) DEF Panel!RollbackInstallation, Panel!At,
      Panel!Enter, Panel!Raise, Panel!Fault, Panel!server, Panel!deployment,
      Panel!StepOf, Panel!Installed, judging, IInv, Counted, TypeInv, TypeOK, Placed,
      Panel!Working
<1>4. Judged'
  BY PreparationAssumption, SMTT(60) DEF Panel!RollbackInstallation, Panel!At,
      Panel!Enter, Panel!Raise, Panel!Fault, Panel!server, Panel!deployment,
      Panel!StepOf, Panel!Installed, judging, IInv, Judged, TypeInv, TypeOK, Placed,
      Counted, Panel!Working
<1>5. Witnessed'
  BY PreparationAssumption, SMTT(60) DEF Panel!RollbackInstallation, Panel!At,
      Panel!Enter, Panel!Raise, Panel!Fault, Panel!server, Panel!deployment,
      Panel!StepOf, Panel!Installed, judging, IInv, Witnessed, TypeInv, TypeOK, Placed,
      Panel!Working
<1>6. Watched'
  BY PreparationAssumption, SMTT(60) DEF Panel!RollbackInstallation, Panel!At,
      Panel!Enter, Panel!Raise, Panel!Fault, Panel!server, Panel!deployment,
      Panel!StepOf, Panel!Installed, judging, IInv, Watched, Quiet, Early, TypeInv,
      TypeOK, Placed, Witnessed, Panel!Working
<1>7. VerifiedPanelWorks'
  BY PreparationAssumption, SMTT(60) DEF Panel!RollbackInstallation, Panel!At,
      Panel!Enter, Panel!Raise, Panel!Fault, Panel!server, Panel!deployment,
      Panel!StepOf, Panel!Installed, judging, IInv, VerifiedPanelWorks, Quiet, Early,
      TypeInv, TypeOK, Placed, Witnessed, Panel!Working
<1>8. FailureLeavesNoService'
  BY PreparationAssumption, SMTT(60) DEF Panel!RollbackInstallation, Panel!At,
      Panel!Enter, Panel!Raise, Panel!Fault, Panel!server, Panel!deployment,
      Panel!StepOf, Panel!Installed, judging, IInv, FailureLeavesNoService, Quiet,
      TypeInv, TypeOK, Placed, Witnessed, Watched, Early, Panel!Working
<1> QED
  BY <1>1, <1>2, <1>3, <1>4, <1>5, <1>6, <1>7, <1>8 DEF IInv

\* The job fails.
LEMMA InvFailJob ==
  ASSUME IInv, Panel!FailJob, UNCHANGED judging
  PROVE  IInv'
BY PreparationAssumption, SMTT(60)
DEF Panel!FailJob, Panel!At, Panel!Enter, Panel!Raise, Panel!Fault, Panel!server,
    Panel!deployment,
    Panel!StepOf, Panel!Installed, judging, IInv, TypeInv, TypeOK, Placed, Counted, Judged,
    Witnessed, Watched,
    VerifiedPanelWorks, FailureLeavesNoService, Quiet, Early, Panel!DeploymentState,
    Panel!Working

\* An installer nobody waits for ends.
LEMMA InvOrphanEnds ==
  ASSUME IInv, Panel!OrphanEnds, UNCHANGED judging
  PROVE  IInv'
<1>1. TypeInv'
  <2>1. panel' \in [svc : {"none", "up", "down"}, creds : Nat] /\ panel.creds <= panel'.creds
    BY SMTT(60) DEF Panel!OrphanEnds, Panel!Installed, IInv, TypeInv
  <2>2. config \in Nat /\ stored \in Nat /\ panel.creds \in Nat
        /\ config <= panel.creds /\ stored <= panel.creds
    BY SMT DEF IInv, TypeInv, TypeOK
  <2>3. config' \in 0..panel'.creds /\ stored' \in 0..panel'.creds
    BY <2>1, <2>2, SMT DEF Panel!OrphanEnds
  <2>4. faults' \in 0..MaxFaults
    BY PreparationAssumption, SMT DEF Panel!OrphanEnds, Panel!Fault, IInv, TypeInv, TypeOK
  <2>5. orphan' \in BOOLEAN /\ overlap' \in BOOLEAN /\ untidy' \in BOOLEAN /\ mayExist' \in BOOLEAN
    BY Zenon DEF Panel!OrphanEnds, Panel!At, IInv, TypeInv, TypeOK
  <2>6. /\ dep' \in Panel!DeploymentState /\ cp' = cp
        /\ pc' \in {"outer", "inner", "decide", "idle"} \cup Panel!Working
    BY SMT DEF Panel!OrphanEnds, Panel!At, Panel!Enter, Panel!Raise, IInv, TypeInv, TypeOK,
                Panel!DeploymentState, Panel!Working
  <2> QED
    BY <2>1, <2>3, <2>4, <2>5, <2>6 DEF TypeInv, TypeOK, judging, IInv
<1>2. Placed'
  BY PreparationAssumption, SMTT(60) DEF Panel!OrphanEnds, Panel!At, Panel!Enter,
      Panel!Raise, Panel!Fault, Panel!server, Panel!deployment, Panel!StepOf,
      Panel!Installed, judging, IInv, Placed, Panel!Working, TypeInv, TypeOK, Judged
<1>3. Counted'
  BY PreparationAssumption, SMTT(60) DEF Panel!OrphanEnds, Panel!At, Panel!Enter,
      Panel!Raise, Panel!Fault, Panel!server, Panel!deployment, Panel!StepOf,
      Panel!Installed, judging, IInv, Counted, TypeInv, TypeOK, Placed, Panel!Working
<1>4. Judged'
  BY PreparationAssumption, SMTT(60) DEF Panel!OrphanEnds, Panel!At, Panel!Enter,
      Panel!Raise, Panel!Fault, Panel!server, Panel!deployment, Panel!StepOf,
      Panel!Installed, judging, IInv, Judged, TypeInv, TypeOK, Placed, Counted,
      Panel!Working
<1>5. Witnessed'
  BY PreparationAssumption, SMTT(60) DEF Panel!OrphanEnds, Panel!At, Panel!Enter,
      Panel!Raise, Panel!Fault, Panel!server, Panel!deployment, Panel!StepOf,
      Panel!Installed, judging, IInv, Witnessed, TypeInv, TypeOK, Placed, Panel!Working
<1>6. Watched'
  BY PreparationAssumption, SMTT(60) DEF Panel!OrphanEnds, Panel!At, Panel!Enter,
      Panel!Raise, Panel!Fault, Panel!server, Panel!deployment, Panel!StepOf,
      Panel!Installed, judging, IInv, Watched, Quiet, Early, TypeInv, TypeOK, Placed,
      Witnessed, Panel!Working
<1>7. VerifiedPanelWorks'
  BY PreparationAssumption, SMTT(60) DEF Panel!OrphanEnds, Panel!At, Panel!Enter,
      Panel!Raise, Panel!Fault, Panel!server, Panel!deployment, Panel!StepOf,
      Panel!Installed, judging, IInv, VerifiedPanelWorks, Quiet, Early, TypeInv, TypeOK,
      Placed, Witnessed, Panel!Working
<1>8. FailureLeavesNoService'
  BY PreparationAssumption, SMTT(60) DEF Panel!OrphanEnds, Panel!At, Panel!Enter,
      Panel!Raise, Panel!Fault, Panel!server, Panel!deployment, Panel!StepOf,
      Panel!Installed, judging, IInv, FailureLeavesNoService, Quiet, TypeInv, TypeOK,
      Placed, Witnessed, Watched, Early, Panel!Working
<1> QED
  BY <1>1, <1>2, <1>3, <1>4, <1>5, <1>6, <1>7, <1>8 DEF IInv

\* A connection is lost.
LEMMA InvLoseConnection ==
  ASSUME IInv, Panel!LoseConnection, UNCHANGED judging
  PROVE  IInv'
BY PreparationAssumption, SMTT(60)
DEF Panel!LoseConnection, Panel!At, Panel!Enter, Panel!Raise, Panel!Fault, Panel!server,
    Panel!deployment,
    Panel!StepOf, Panel!Installed, judging, IInv, TypeInv, TypeOK, Placed, Counted, Judged,
    Witnessed, Watched,
    VerifiedPanelWorks, FailureLeavesNoService, Quiet, Early, Panel!DeploymentState,
    Panel!Working

\* Storing the credentials fails.
LEMMA InvStoreFails ==
  ASSUME IInv, Panel!StoreFails, UNCHANGED judging
  PROVE  IInv'
BY PreparationAssumption, SMTT(60)
DEF Panel!StoreFails, Panel!At, Panel!Enter, Panel!Raise, Panel!Fault, Panel!server,
    Panel!deployment,
    Panel!StepOf, Panel!Installed, judging, IInv, TypeInv, TypeOK, Placed, Counted, Judged,
    Witnessed, Watched,
    VerifiedPanelWorks, FailureLeavesNoService, Quiet, Early, Panel!DeploymentState,
    Panel!Working

\* The process dies in a deployment.
LEMMA InvCrashDeployment ==
  ASSUME IInv, Panel!CrashDeployment, UNCHANGED judging
  PROVE  IInv'
<1>1. TypeInv'
  <2>1. panel' \in [svc : {"none", "up", "down"}, creds : Nat] /\ panel.creds <= panel'.creds
    BY SMTT(60) DEF Panel!CrashDeployment, Panel!server, IInv, TypeInv
  <2>2. config \in Nat /\ stored \in Nat /\ panel.creds \in Nat
        /\ config <= panel.creds /\ stored <= panel.creds
    BY SMT DEF IInv, TypeInv, TypeOK
  <2>3. config' \in 0..panel'.creds /\ stored' \in 0..panel'.creds
    BY <2>1, <2>2, SMT DEF Panel!CrashDeployment, Panel!server
  <2>4. faults' \in 0..MaxFaults
    BY PreparationAssumption, SMT DEF Panel!CrashDeployment, Panel!server, Panel!Fault, IInv,
                                      TypeInv, TypeOK
  <2>5. orphan' \in BOOLEAN /\ overlap' \in BOOLEAN /\ untidy' \in BOOLEAN /\ mayExist' \in BOOLEAN
    BY Zenon DEF Panel!CrashDeployment, Panel!server, Panel!At, IInv, TypeInv, TypeOK
  <2>6. /\ dep' \in Panel!DeploymentState /\ cp' = cp
        /\ pc' \in {"outer", "inner", "decide", "idle"} \cup Panel!Working
    BY SMT DEF Panel!CrashDeployment, Panel!server, Panel!At, Panel!Enter, Panel!Raise, IInv,
               TypeInv, TypeOK,
                Panel!DeploymentState, Panel!Working
  <2> QED
    BY <2>1, <2>3, <2>4, <2>5, <2>6 DEF TypeInv, TypeOK, judging, IInv
<1>2. Placed'
  BY PreparationAssumption, SMTT(60) DEF Panel!CrashDeployment, Panel!At, Panel!Enter,
      Panel!Raise, Panel!Fault, Panel!server, Panel!deployment, Panel!StepOf,
      Panel!Installed, judging, IInv, Placed, Panel!Working, TypeInv, TypeOK, Judged
<1>3. Counted'
  BY PreparationAssumption, SMTT(60) DEF Panel!CrashDeployment, Panel!At, Panel!Enter,
      Panel!Raise, Panel!Fault, Panel!server, Panel!deployment, Panel!StepOf,
      Panel!Installed, judging, IInv, Counted, TypeInv, TypeOK, Placed, Panel!Working
<1>4. Judged'
  BY PreparationAssumption, SMTT(60) DEF Panel!CrashDeployment, Panel!At, Panel!Enter,
      Panel!Raise, Panel!Fault, Panel!server, Panel!deployment, Panel!StepOf,
      Panel!Installed, judging, IInv, Judged, TypeInv, TypeOK, Placed, Counted,
      Panel!Working
<1>5. Witnessed'
  BY PreparationAssumption, SMTT(60) DEF Panel!CrashDeployment, Panel!At, Panel!Enter,
      Panel!Raise, Panel!Fault, Panel!server, Panel!deployment, Panel!StepOf,
      Panel!Installed, judging, IInv, Witnessed, TypeInv, TypeOK, Placed, Panel!Working
<1>6. Watched'
  <2>1. pc' = "idle" /\ UNCHANGED <<dep, panel>> /\ pc \in Panel!Working
    BY DEF Panel!CrashDeployment
  <2>2. (overlap => overlap') /\ (untidy => untidy')
    BY Zenon DEF Panel!CrashDeployment
  <2>3. pc \in {"except", "rollback"} => untidy'
    BY Zenon DEF Panel!CrashDeployment
  <2>4. dep \in Early => panel.svc # "up" \/ overlap
    BY DEF IInv, Watched
  <2>5. dep = "failed" /\ pc # "rollback" => Quiet
    BY DEF IInv, Watched
  <2>6. dep' = "failed" => Quiet'
    BY <2>1, <2>2, <2>3, <2>5, Zenon DEF Quiet
  <2> QED
    BY <2>1, <2>2, <2>4, <2>6 DEF Watched
<1>7. VerifiedPanelWorks'
  BY PreparationAssumption, SMTT(60) DEF Panel!CrashDeployment, Panel!At, Panel!Enter,
      Panel!Raise, Panel!Fault, Panel!server, Panel!deployment, Panel!StepOf,
      Panel!Installed, judging, IInv, VerifiedPanelWorks, Quiet, Early, TypeInv, TypeOK,
      Placed, Witnessed, Panel!Working
<1>8. FailureLeavesNoService'
  BY PreparationAssumption, SMTT(60) DEF Panel!CrashDeployment, Panel!At, Panel!Enter,
      Panel!Raise, Panel!Fault, Panel!server, Panel!deployment, Panel!StepOf,
      Panel!Installed, judging, IInv, FailureLeavesNoService, Quiet, TypeInv, TypeOK,
      Placed, Witnessed, Watched, Early, Panel!Working
<1> QED
  BY <1>1, <1>2, <1>3, <1>4, <1>5, <1>6, <1>7, <1>8 DEF IInv

------------------------------------------------------------------------------
(* The theorems.                                                            *)

\* Every step keeps the invariant.
LEMMA InvNext ==
  ASSUME IInv, [Next]_vars
  PROVE  IInv'
<1>1. CASE Judge!RNext /\ UNCHANGED deploying
  <2>1. CASE Judge!StartRounds  BY <1>1, <2>1, InvStartRounds
  <2>2. CASE Judge!OuterCheck  BY <1>1, <2>2, InvOuterCheck
  <2>3. CASE Judge!InnerCheck  BY <1>1, <2>3, InvInnerCheck
  <2>4. CASE Judge!Decide  BY <1>1, <2>4, InvDecide
  <2>5. CASE Judge!LeaveRounds  BY <1>1, <2>5, InvLeaveRounds
  <2>6. CASE Judge!Boot  BY <1>1, <2>6, InvBoot
  <2> QED
    BY <1>1, <2>1, <2>2, <2>3, <2>4, <2>5, <2>6 DEF Judge!RNext
<1>2. CASE Panel!DNext /\ UNCHANGED judging
  <2>1. CASE Panel!StageIpVerified  BY <1>2, <2>1, InvStageIpVerified
  <2>2. CASE Panel!Resume  BY <1>2, <2>2, InvResume
  <2>3. CASE Panel!Accept  BY <1>2, <2>3, InvAccept
  <2>4. CASE Panel!WaitForSsh  BY <1>2, <2>4, InvWaitForSsh
  <2>5. CASE Panel!Bootstrap  BY <1>2, <2>5, InvBootstrap
  <2>6. CASE Panel!ProbeInstallation  BY <1>2, <2>6, InvProbeInstallation
  <2>7. CASE Panel!Install  BY <1>2, <2>7, InvInstall
  <2>8. CASE Panel!Verify  BY <1>2, <2>8, InvVerify
  <2>9. CASE Panel!Read  BY <1>2, <2>9, InvRead
  <2>10. CASE Panel!CallApi  BY <1>2, <2>10, InvCallApi
  <2>11. CASE Panel!RecordDeployment  BY <1>2, <2>11, InvRecordDeployment
  <2>12. CASE Panel!StoreFailed  BY <1>2, <2>12, InvStoreFailed
  <2>13. CASE Panel!RollbackInstallation  BY <1>2, <2>13, InvRollbackInstallation
  <2>14. CASE Panel!FailJob  BY <1>2, <2>14, InvFailJob
  <2>15. CASE Panel!OrphanEnds  BY <1>2, <2>15, InvOrphanEnds
  <2>16. CASE Panel!LoseConnection  BY <1>2, <2>16, InvLoseConnection
  <2>17. CASE Panel!StoreFails  BY <1>2, <2>17, InvStoreFails
  <2>18. CASE Panel!CrashDeployment  BY <1>2, <2>18, InvCrashDeployment
  <2> QED
    BY <1>2, <2>1, <2>2, <2>3, <2>4, <2>5, <2>6, <2>7, <2>8, <2>9,
       <2>10, <2>11, <2>12, <2>13, <2>14, <2>15, <2>16, <2>17, <2>18 DEF Panel!DNext, Panel!DStep
<1>3. CASE UNCHANGED vars
  BY <1>3 DEF vars, judging, deploying, IInv, TypeInv, TypeOK, Placed, Counted, Judged, Witnessed,
              Watched, VerifiedPanelWorks, FailureLeavesNoService, Quiet, Early
<1> QED
  BY <1>1, <1>2, <1>3 DEF Next

\* The invariant holds in every reachable state (replacement/orchestrator.py:536-850,
\* deployment/service.py).
THEOREM Invariance == Spec => []IInv
<1>1. IInv /\ [Next]_vars => IInv'
  BY InvNext
<1> QED
  BY InitInv, <1>1, PTL DEF Spec

\* The typing of the state: Preparation's invariant TypeOK.
THEOREM TypeCorrect == Spec => []TypeOK
<1>1. IInv => TypeOK
  BY DEF IInv, TypeInv
<1> QED
  BY Invariance, <1>1, PTL

\* An address is kept or discarded by a consensus of misled rounds or rightly
\* (_verify_candidate_reachability).
THEOREM SoundVerdicts == Spec => []VerdictsSound
<1>1. IInv => VerdictsSound
  BY DEF IInv, Placed, Judged, VerdictsSound
<1> QED
  BY Invariance, <1>1, PTL

\* NODE_VERIFIED means a panel that runs with the credentials that are stored
\* (DeploymentService.deploy and _stage_deploying).
THEOREM VerifiedWorks == Spec => []VerifiedPanelWorks
<1>1. IInv => VerifiedPanelWorks
  BY DEF IInv
<1> QED
  BY Invariance, <1>1, PTL

\* A failed deployment leaves no running service (DeploymentService.deploy).
THEOREM FailureIsQuiet == Spec => []FailureLeavesNoService
<1>1. IInv => FailureLeavesNoService
  BY DEF IInv
<1> QED
  BY Invariance, <1>1, PTL
=============================================================================
