------------------------------ MODULE Registry ------------------------------
(****************************************************************************)
(* What RegistryManagementService writes: the rows of one provider and of   *)
(* one of its nodes, the managed secret files they refer to, and the        *)
(* known_hosts entry of the node; and what a replacement job writes there.  *)
(* A row and a file never change in the same step.                          *)
(****************************************************************************)
EXTENDS Naturals, FiniteSets

CONSTANTS
  Secret,    \* references to secret files (their names hold a uuid)
  None,
  Strict,    \* ssh_verify_host_key
  MaxKeys,   \* bound on the SSH host keys the node's server ever has
  MaxFaults  \* bound on lost answers, disk errors and restarts

ASSUME RegistryAssumption ==
  /\ IsFiniteSet(Secret) /\ None \notin Secret
  /\ Strict \in BOOLEAN /\ MaxKeys \in Nat \ {0} /\ MaxFaults \in Nat

VARIABLES
  files,      \* secret files on disk
  provider,   \* credential reference of the provider, None if it is not registered
  node,       \* the node, and the references in its credentials row
  job,        \* its replacement job, with the reference in the deployment row
  hostKey,    \* SSH host key of its server
  trusted,    \* host key in known_hosts (0: none)
  confirmed,  \* history: host keys an operator has confirmed
  unsure,     \* history: references committed by a request that then failed
  faults

rows == <<provider, node, job>>
keys == <<hostKey, trusted, confirmed>>
registry == <<files, rows, keys, unsure, faults>>

NoNode == [there |-> FALSE, api |-> None, ssh |-> None]

RegistryInit ==
  /\ files = {} /\ provider = None /\ node = NoNode
  /\ job = [st |-> "none", ref |-> None]
  /\ hostKey = 1 /\ trusted = 0 /\ confirmed = {} /\ unsure = {} /\ faults = 0

Fault == faults < MaxFaults /\ faults' = faults + 1

LiveSecrets == {provider, node.api, node.ssh} \ {None}
Referenced == LiveSecrets \cup ({job.ref} \ {None})

\* A login is tried only on a server with the key in known_hosts.
HostTrusted == Strict => trusted = hostKey

\* trust: the key is fetched again, and must still be the one that was shown.
FaultyTrust(shown) ==
  /\ trusted' = hostKey /\ confirmed' = confirmed \cup {shown}
  /\ UNCHANGED <<files, rows, hostKey, unsure, faults>>
Trust(shown) ==
  /\ hostKey = shown
  /\ trusted' = hostKey /\ confirmed' = confirmed \cup {shown}
  /\ UNCHANGED <<files, rows, hostKey, unsure, faults>>

\* Rows written by the commits; the files they supersede go after the commit.
InsertProvider(ref) ==
  /\ provider = None /\ ref \in files /\ provider' = ref /\ UNCHANGED <<node, job, keys>>
SetProviderToken(ref) ==
  /\ provider # None /\ ref \in files /\ provider' = ref /\ UNCHANGED <<node, job, keys>>
SetNodeSsh(ref) ==
  /\ node.there /\ HostTrusted /\ ref \in files /\ node' = [node EXCEPT !.ssh = ref]
  /\ UNCHANGED <<provider, job, keys>>
SetNodeToken(ref) ==
  /\ node.there /\ node' = [node EXCEPT !.api = ref] /\ UNCHANGED <<provider, job, keys>>

\* register_node: a new node, or the idempotent refresh of the same one, which
\* keeps the API token when it is given none.
RegisterNode(api, ssh) ==
  /\ provider # None /\ HostTrusted /\ {api, ssh} \ {None} \subseteq files
  /\ node' = [there |-> TRUE, api |-> IF api = None THEN node.api ELSE api, ssh |-> ssh]
  /\ UNCHANGED <<provider, job, keys>>

\* Files are deleted one after the other.  A disk error, or the end of the
\* process, leaves that file and those after it: one of the tails.
Discard(refs) == files' = files \ refs /\ UNCHANGED faults
DiscardFails(refs, tails) ==
  Fault /\ \E kept \in tails : kept \cap files # {} /\ files' = files \ (refs \ kept)

\* Removal: the rows, then their files.
RemoveProvider ==
  /\ provider # None /\ ~node.there /\ provider' = None
  /\ Discard({provider}) \/ DiscardFails({provider}, {{provider}})
  /\ UNCHANGED <<node, job, keys, unsure>>
RemoveNode ==
  LET refs == {node.api, node.ssh} IN
  /\ node.there /\ job.st = "none" /\ node' = NoNode
  /\ Discard(refs) \/ DiscardFails(refs, {refs, {node.api}})
  /\ UNCHANGED <<provider, job, keys, unsure>>

\* A replacement of the node: a file with the new panel's token, to which the
\* deployment row refers and, at the end, the credentials row.
StartJob ==
  /\ node.there /\ job.st = "none" /\ job' = [job EXCEPT !.st = "running"]
  /\ UNCHANGED <<files, provider, node, keys, unsure, faults>>
StoreDeployment(ref) ==
  /\ job.st = "running" /\ job' = [st |-> "deployed", ref |-> ref]
  /\ files' = files \cup {ref} /\ unsure' = unsure \ {ref}
  /\ UNCHANGED <<provider, node, keys, faults>>
FinishJob ==
  /\ job.st = "deployed" /\ job' = [job EXCEPT !.st = "ended"]
  /\ node' = [node EXCEPT !.api = job.ref]
  /\ UNCHANGED <<files, provider, keys, unsure, faults>>
FailJob ==
  /\ job.st \in {"running", "deployed"} /\ job' = [job EXCEPT !.st = "ended"]
  /\ UNCHANGED <<files, provider, node, keys, unsure, faults>>

\* The server is rebuilt, or another one answers at its address.
Rekey ==
  /\ hostKey < MaxKeys /\ hostKey' = hostKey + 1
  /\ UNCHANGED <<files, rows, trusted, confirmed, unsure, faults>>
=============================================================================
