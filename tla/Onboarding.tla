----------------------------- MODULE Onboarding -----------------------------
(****************************************************************************)
(* The registry as the bot's wizards, one replacement job and the node's    *)
(* server leave it: what holds of the secret files and of known_hosts.      *)
(****************************************************************************)
EXTENDS Wizards, TLC

Init == RegistryInit /\ WizardsInit
Spec == Init /\ [][Next]_vars

Alike == Permutations(User) \cup Permutations(Secret)

------------------------------------------------------------------------------
(* Properties.                                                              *)

Reference == Secret \cup {None}

\* What each confirmation needs has been collected when its stage is reached.
TypeOK ==
  /\ files \subseteq Secret /\ provider \in Reference
  /\ node \in [there : BOOLEAN, api : Reference, ssh : Reference]
  /\ node.there <=> node.ssh # None
  /\ job.st \in {"none", "running", "deployed", "ended"} /\ job.ref \in Reference
  /\ hostKey \in 1..MaxKeys /\ trusted \in 0..hostKey /\ confirmed \subseteq 1..hostKey
  /\ unsure \subseteq Secret /\ faults \in 0..MaxFaults
  /\ \A u \in User :
       /\ RefsOf(wiz[u]) \subseteq Secret /\ wiz[u].shown \in 0..hostKey
       /\ wiz[u].stage = "node_confirm" => wiz[u].ssh # None
       /\ wiz[u].stage \in {"provider_confirm", "node_token", "node_ssh"} => wiz[u].staged # None
       /\ wiz[u].stage = "ssh_host_key_confirm" =>
            /\ wiz[u].shown # 0
            /\ wiz[u].resume \in {"node_ssh_secret", "node_ssh_edit_secret", "node_confirm"}
            /\ wiz[u].resume = "node_confirm" => wiz[u].ssh # None

\* A credential the registry refers to can be read, whatever was cancelled,
\* replaced, removed or interrupted: no step deletes the file of a live
\* credential.  The one exception is a save that failed after its commit and
\* whose wizard, which still holds the reference, was then cancelled.
LiveSecretsExist == LiveSecrets \ unsure \subseteq files

\* known_hosts holds no key that an operator did not see and confirm
\* (README.md:179), though the server may change its key
\* and other wizards may go on between the question and the confirmation.
OnlyConfirmedKeysTrusted == trusted \in confirmed \cup {0}

\* A secret file that neither the registry nor a wizard refers to.
Orphans == files \ (Referenced \cup Held)

\* Old references dropped without their file: register_node's refresh, the end
\* of a replacement, which may also come between the read and the commit of a
\* replaced token, and a stage that is entered twice or left for another wizard.
Dropped ==
  \/ FinishJob \/ \E u \in User : SaveNode(u)
  \/ node.api # busy.old /\ ReplaceNodeToken
  \/ \E u \in User : Overwrite(u) \/ (wiz[u].staged # None /\ SshEditSecret(u))

\* Nothing else leaves a secret behind: cancelling, saving, rotating and
\* removing clean up after themselves unless they fail half way (docs/TELEGRAM.md:59).
NoOtherLeak == [][Orphans' \subseteq Orphans \/ faults' # faults \/ Dropped]_vars
=============================================================================
