------------------------------ MODULE SafeSwap ------------------------------
(****************************************************************************)
(* What the replacement of a node's server promises, with no jobs, leases,  *)
(* checkpoints or retries: which server may be bought, discarded, put in    *)
(* the Master panel, deleted and adopted, in terms of the evidence there is *)
(* for it.  docs/REPLACEMENT.md states it as gates; Replacement implements  *)
(* it, whatever crashes, repeats and interferes.                            *)
(****************************************************************************)
CONSTANTS Servers, First   \* First is the server in service at the start

VARIABLES
  cloud,     \* what the provider runs
  service,   \* the server the registry says is in service
  target,    \* the server the Master panel sends users to
  evidence   \* <<kind, server>>: what has been found out about the servers

swap == <<cloud, service, target, evidence>>

Kinds == {"ip", "deploy", "final"}
Has(s, kinds) == \A k \in kinds : <<k, s>> \in evidence

Init ==
  /\ cloud = [s \in Servers |-> IF s = First THEN "live" ELSE "absent"]
  /\ service = First /\ target = First /\ evidence = {}

Buy(s) ==
  /\ cloud[s] = "absent" /\ cloud' = [cloud EXCEPT ![s] = "live"]
  /\ UNCHANGED <<service, target, evidence>>

\* The provider may lose a server the registry does not count on.
Vanish(s) ==
  /\ s # service /\ cloud[s] = "live" /\ cloud' = [cloud EXCEPT ![s] = "lost"]
  /\ UNCHANGED <<service, target, evidence>>

\* Evidence comes from a running server, and in this order.
Establish(kind, s) ==
  /\ cloud[s] = "live" /\ evidence' = evidence \cup {<<kind, s>>}
  /\ kind = "deploy" => Has(s, {"ip"})
  /\ kind = "final" => Has(s, {"ip", "deploy"})
  /\ UNCHANGED <<cloud, service, target>>

\* Only a server without a verified deployment is thrown away.
Discard(s) ==
  /\ s # service /\ cloud[s] = "live" /\ ~Has(s, {"deploy"})
  /\ cloud' = [cloud EXCEPT ![s] = "deleted"]
  /\ UNCHANGED <<service, target, evidence>>

\* Users are sent to a checked and deployed server, or back where they came from.
Switch(s) ==
  /\ s = First \/ Has(s, {"ip", "deploy"})
  /\ target' = s /\ UNCHANGED <<cloud, service, evidence>>

\* The server in service is deleted once another one has all the evidence.
Retire ==
  /\ cloud[service] = "live" /\ \E s \in Servers \ {service} : Has(s, Kinds)
  /\ cloud' = [cloud EXCEPT ![service] = "deleted"]
  /\ UNCHANGED <<service, target, evidence>>

Adopt(s) ==
  /\ cloud[service] # "live" /\ Has(s, Kinds)
  /\ service' = s /\ UNCHANGED <<cloud, target, evidence>>

Next ==
  \/ \E s \in Servers :
       \/ Buy(s) \/ Vanish(s) \/ Discard(s) \/ Switch(s) \/ Adopt(s)
       \/ \E k \in Kinds : Establish(k, s)
  \/ Retire

Spec == Init /\ [][Next]_swap
=============================================================================
