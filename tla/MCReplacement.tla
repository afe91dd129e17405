---------------------------- MODULE MCReplacement ----------------------------
(* Small instances of Replacement for TLC. *)
EXTENDS SwapRefinement, TLC

MCOneJob == 1..1
MCTwoJobs == 1..2

\* What the workflow must survive by design.
CrashFaults == {"crash", "deferral", "lost"}
\* The operator's commands on top of it.
OperatorFaults == CrashFaults \cup {"cancel", "disable", "rename"}
\* Two executions of one job: the holder outlives its lease.
LeaseFaults == {"crash", "deferral", "lapse"}

CrashOnly == {"crash"}
DeferralOnly == {"deferral"}
CancelOnly == {"cancel"}

\* Executions of resume() differ in nothing but their token.
Symmetry == Permutations(Workers)
=============================================================================
