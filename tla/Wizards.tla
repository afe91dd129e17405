------------------------------ MODULE Wizards ------------------------------
(****************************************************************************)
(* The setup wizards of the bot (app/bot/registry_ui.py): one per operator, *)
(* in memory, driven by buttons and messages that are handled one at a      *)
(* time.  Old buttons stay on the screen and can be pressed at any stage.   *)
(* A series of questions whose answers are only noted is one stage, named   *)
(* after the last of them.                                                  *)
(****************************************************************************)
EXTENDS Registry

CONSTANT User

ASSUME WizardsAssumption == None \notin {"provider", "owner", "node", "gone"}

VARIABLES
  wiz,  \* context.user_data["registry_wizard"] of each operator
  busy  \* replace_node_api_token in progress: its operator, the reference it read

vars == <<registry, wiz, busy>>

Idle == busy = [user |-> None, old |-> None]
NoWizard == [stage |-> "none", about |-> None, staged |-> None, api |-> None, ssh |-> None,
             shown |-> 0, resume |-> None]
\* entity_id ("provider", "node") or provider_id ("owner"); "gone" once the row
\* with that id is deleted.
Wizard(stage, about) == [NoWizard EXCEPT !.stage = stage, !.about = about]

RefsOf(w) == {w.staged, w.api, w.ssh} \ {None}
Held == UNION {RefsOf(wiz[u]) : u \in User}
Free == Secret \ (files \cup Referenced \cup Held \cup {busy.old})

WizardsInit == wiz = [u \in User |-> NoWizard] /\ busy = [user |-> None, old |-> None]

At(u, stage) == Idle /\ wiz[u].stage = stage
About(u, id) == wiz[u].about = id
Show(u, w) == wiz' = [wiz EXCEPT ![u] = w] /\ UNCHANGED busy
Goto(u, stage) == Show(u, [wiz[u] EXCEPT !.stage = stage])

------------------------------------------------------------------------------
(* Starting and leaving a wizard.                                           *)

\* _cancel_wizard, by the Cancel button and before an add wizard starts (which
\* it does not after a disk error): the wizard goes first, then its files.
FaultyLeave(u, w) ==
  /\ Idle /\ Show(u, w) /\ files' = files \ ({wiz[u].staged, wiz[u].api} \ {None})
  /\ UNCHANGED <<rows, keys, unsure, faults>>
Leave(u, w) ==
  LET x == wiz[u] IN
  /\ Idle /\ UNCHANGED <<rows, keys, unsure>>
  /\ \/ Show(u, w) /\ Discard(RefsOf(x))
     \/ Show(u, NoWizard) /\ DiscardFails(RefsOf(x), {RefsOf(x), {x.api, x.ssh}, {x.ssh}})
Cancel(u) == Leave(u, NoWizard)
StartProviderAdd(u) == Leave(u, Wizard("provider_token", None))
StartNodeAdd(u) ==
  Leave(u, IF provider # None THEN Wizard("node_master_id", "owner") ELSE NoWizard)

\* The other buttons replace the wizard, whatever it holds.
Overwrite(u) ==
  /\ Idle /\ UNCHANGED registry
  /\ \E w \in {Wizard("provider_token", None), Wizard("provider_rename", "provider"),
               Wizard("provider_token_replace", "provider"),
               Wizard("node_master_id", "owner"), Wizard("node_rename", "node"),
               Wizard("node_token_replace", "node"), Wizard("node_ssh_edit_port", "node")} :
       /\ w.about \in {"provider", "owner"} => provider # None
       /\ w.about = "node" => node.there
       /\ Show(u, w)

------------------------------------------------------------------------------
(* Questions and answers.                                                   *)

\* The buttons of an SSH edit match any wizard about the node.
SshEditAuth(u) ==
  /\ Idle /\ About(u, "node")
  /\ Goto(u, "node_ssh_edit_port") /\ UNCHANGED registry

Rename(u) ==
  /\ \/ At(u, "provider_rename") /\ About(u, "provider")
     \/ At(u, "node_rename") /\ About(u, "node")
  /\ Show(u, NoWizard) /\ UNCHANGED registry

\* _try_node_discovery without a token; it fails unless the provider is there.
Discover(u) ==
  /\ At(u, "node_master_id") /\ About(u, "owner")
  /\ \E stage \in {"node_ssh_port", "node_api_token"} : Goto(u, stage)
  /\ UNCHANGED registry

\* stage_secret, once the secret has been validated: its file and reference.
Staged(ref) ==
  /\ ref \in Free /\ files' = files \cup {ref} /\ unsure' = unsure \ {ref}
  /\ UNCHANGED <<rows, keys, faults>>

ProviderToken(u) ==
  /\ At(u, "provider_token") /\ About(u, None)
  /\ \E ref \in Secret :
       Staged(ref) /\ Show(u, [wiz[u] EXCEPT !.staged = ref, !.stage = "provider_confirm"])
ProviderTokenReplace(u) ==
  /\ At(u, "provider_token_replace") /\ About(u, "provider")
  /\ \E ref \in Secret :
       Staged(ref) /\ Show(u, [wiz[u] EXCEPT !.staged = ref, !.stage = "provider_token"])
NodeTokenReplace(u) ==
  /\ At(u, "node_token_replace") /\ About(u, "node")
  /\ \E ref \in Secret :
       Staged(ref) /\ Show(u, [wiz[u] EXCEPT !.staged = ref, !.stage = "node_token"])
\* Here the wizard goes on before the file is written.
NodeApiToken(u) ==
  /\ At(u, "node_api_token") /\ About(u, "owner")
  /\ \/ \E ref \in Secret :
          Staged(ref) /\ Show(u, [wiz[u] EXCEPT !.api = ref, !.stage = "node_ssh_port"])
     \/ Fault /\ Goto(u, "node_ssh_port") /\ UNCHANGED <<files, rows, keys, unsure>>

------------------------------------------------------------------------------
(* SSH: the host key is shown and confirmed, then the credential is tried.  *)

AskHostKey(u, resume) ==
  /\ Show(u, [wiz[u] EXCEPT !.stage = "ssh_host_key_confirm", !.shown = hostKey,
                            !.resume = resume])
  /\ UNCHANGED registry

SshPort(u) ==
  \/ /\ At(u, "node_ssh_port")
     /\ AskHostKey(u, "node_ssh_secret")
  \/ /\ At(u, "node_ssh_edit_port") /\ About(u, "node")
     /\ AskHostKey(u, "node_ssh_edit_secret")

ConfirmHostKey(u) ==
  /\ At(u, "ssh_host_key_confirm") /\ Trust(wiz[u].shown)
  /\ Show(u, [wiz[u] EXCEPT !.stage = wiz[u].resume, !.shown = 0, !.resume = None])

SshSecret(u) ==
  /\ At(u, "node_ssh_secret")
  /\ \/ ~HostTrusted /\ AskHostKey(u, "node_ssh_secret")
     \/ /\ HostTrusted
        /\ \E ref \in Secret :
             Staged(ref) /\ Show(u, [wiz[u] EXCEPT !.ssh = ref, !.stage = "node_confirm"])
FaultySshEditSecret(u) ==
  /\ At(u, "node_ssh_edit_secret") /\ About(u, "node")
  /\ Goto(u, "node_ssh") /\ UNCHANGED registry
SshEditSecret(u) ==
  /\ At(u, "node_ssh_edit_secret") /\ About(u, "node")
  /\ \/ ~HostTrusted /\ AskHostKey(u, "node_ssh_edit_secret")
     \/ /\ HostTrusted
        /\ \E ref \in Secret :
             Staged(ref) /\ Show(u, [wiz[u] EXCEPT !.staged = ref, !.stage = "node_ssh"])

------------------------------------------------------------------------------
(* Confirmations.  A request that fails before its commit leaves all as it  *)
(* was; one that fails after it, to the operator, looks the same.           *)

Conclude(u, new, old) ==
  \/ Show(u, NoWizard) /\ files' = files \ (old \ new) /\ UNCHANGED <<unsure, faults>>
  \/ Fault /\ unsure' = unsure \cup new /\ UNCHANGED <<wiz, busy, files>>

SaveProvider(u) ==
  /\ At(u, "provider_confirm") /\ InsertProvider(wiz[u].staged)
  /\ Conclude(u, {wiz[u].staged}, {})
ReplaceProviderToken(u) ==
  /\ At(u, "provider_token") /\ About(u, "provider") /\ SetProviderToken(wiz[u].staged)
  /\ Conclude(u, {wiz[u].staged}, {provider})
ReplaceNodeSsh(u) ==
  /\ At(u, "node_ssh") /\ About(u, "node") /\ SetNodeSsh(wiz[u].staged)
  /\ Conclude(u, {wiz[u].staged}, {node.ssh})

SaveNode(u) ==
  /\ At(u, "node_confirm") /\ About(u, "owner") /\ RegisterNode(wiz[u].api, wiz[u].ssh)
  /\ Conclude(u, RefsOf(wiz[u]), {})
SaveNodeUntrusted(u) ==
  /\ At(u, "node_confirm") /\ About(u, "owner") /\ ~HostTrusted
  /\ AskHostKey(u, "node_confirm")

\* replace_node_api_token reads the old reference, tries the new token on the
\* node, and only then commits: the worker may finish a replacement meanwhile.
BeginReplaceNodeToken(u) ==
  /\ At(u, "node_token") /\ About(u, "node") /\ wiz[u].staged \in files
  /\ busy' = [user |-> u, old |-> node.api] /\ UNCHANGED <<registry, wiz>>
NodeTokenRefused ==
  /\ ~Idle /\ busy' = [user |-> None, old |-> None] /\ UNCHANGED <<registry, wiz>>
FaultyReplaceNodeToken ==
  /\ ~Idle /\ busy' = [user |-> None, old |-> None]
  /\ SetNodeToken(wiz[busy.user].staged)
  /\ files' = files \ ({busy.old} \ {wiz[busy.user].staged})
  /\ UNCHANGED <<wiz, unsure, faults>>
ReplaceNodeToken ==
  LET u == busy.user  new == wiz[u].staged IN
  /\ ~Idle /\ busy' = [user |-> None, old |-> None] /\ SetNodeToken(new)
  /\ \/ /\ wiz' = [wiz EXCEPT ![u] = NoWizard] /\ files' = files \ ({busy.old} \ {new})
        /\ UNCHANGED <<unsure, faults>>
     \/ Fault /\ unsure' = unsure \cup {new} /\ UNCHANGED <<wiz, files>>

\* Removal, with the buttons px and nx; an open wizard about it leads nowhere.
Forget(abouts) ==
  /\ Idle /\ UNCHANGED busy
  /\ wiz' = [u \in User |-> IF wiz[u].about \in abouts THEN [wiz[u] EXCEPT !.about = "gone"]
                                                        ELSE wiz[u]]
ProviderRemoved == RemoveProvider /\ Forget({"provider", "owner"})
NodeRemoved == RemoveNode /\ Forget({"node"})

\* The process starts again without the wizards.
Restart ==
  /\ Fault /\ wiz' = [u \in User |-> NoWizard] /\ busy' = [user |-> None, old |-> None]
  /\ UNCHANGED <<files, rows, keys, unsure>>

------------------------------------------------------------------------------
(* The next-state relation.                                                 *)

Steer(u) == Cancel(u) \/ StartProviderAdd(u) \/ StartNodeAdd(u) \/ Overwrite(u)
Reply(u) ==
  \/ SshEditAuth(u) \/ Rename(u) \/ Discover(u)
  \/ ProviderToken(u) \/ ProviderTokenReplace(u) \/ NodeTokenReplace(u) \/ NodeApiToken(u)
  \/ SshPort(u) \/ ConfirmHostKey(u) \/ SshSecret(u) \/ SshEditSecret(u)
Confirm(u) ==
  \/ SaveProvider(u) \/ ReplaceProviderToken(u) \/ ReplaceNodeSsh(u)
  \/ SaveNode(u) \/ SaveNodeUntrusted(u) \/ BeginReplaceNodeToken(u)
Worker ==
  \/ StartJob \/ FinishJob \/ FailJob
  \/ \E ref \in Free : StoreDeployment(ref)

Next ==
  \/ \E u \in User : Steer(u) \/ Reply(u) \/ Confirm(u)
  \/ NodeTokenRefused \/ ReplaceNodeToken \/ ProviderRemoved \/ NodeRemoved
  \/ (Worker \/ Rekey) /\ UNCHANGED <<wiz, busy>>
  \/ Restart
=============================================================================
