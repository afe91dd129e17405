--------------------------- MODULE SwapRefinement ---------------------------
(****************************************************************************)
(* Replacement implements SafeSwap: the mapping from jobs, deployments,     *)
(* registry rows and the outside world to servers and evidence.             *)
(****************************************************************************)
EXTENDS Replacement

\* A deployment that succeeded is evidence about its server, like the checks
\* that found its address reachable.
Deployed ==
  {dep[d[1]][d[2]].vps : d \in {e \in Jobs \X (0..MaxAttempts) :
                                 dep[e[1]][e[2]].st = "succeeded"}}

Swap == INSTANCE SafeSwap WITH
  First <- 0, service <- node.host, target <- master.addr,
  evidence <- observed \cup {<<"deploy", s>> : s \in Deployed}

\* Every behaviour of the workflow is a safe swap: evidence is gathered in
\* order and on running servers, only unverified candidates are discarded, the
\* Master is sent to evidenced servers only, the old server goes last, and the
\* registry adopts a server that has all the evidence (docs/REPLACEMENT.md).
ImplementsSafeSwap == Swap!Spec
=============================================================================
