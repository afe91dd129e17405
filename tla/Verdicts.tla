------------------------------ MODULE Verdicts ------------------------------
(****************************************************************************)
(* The verdict on a Check-Host summary (ReachabilityEvaluator.evaluate,     *)
(* app/monitoring/health.py), read by monitoring and by the verification    *)
(* of replacement candidates.                                               *)
(****************************************************************************)
EXTENDS Naturals

Verdict == {"REACHABLE", "UNREACHABLE", "INDETERMINATE"}

\* Of total probes, ok report success, bad report failure; the others are
\* pending, or their report cannot be read.
Evaluate(total, min, ok, bad) ==
  CASE total < min -> "INDETERMINATE"
    [] total >= min /\ ok >= min -> "REACHABLE"
    [] total >= min /\ ok < min /\ total - bad < min -> "UNREACHABLE"
    [] OTHER -> "INDETERMINATE"

Summaries(total) == {s \in (0..total) \X (0..total) : s[1] + s[2] <= total}

\* A verdict is forced when every way the open probes could still answer gives
\* it: what the evaluator may say before all the answers are in.
Forced(total, min, ok, bad, verdict) ==
  \A more \in 0..(total - ok - bad) :
    Evaluate(total, min, ok + more, total - ok - more) = verdict
=============================================================================
