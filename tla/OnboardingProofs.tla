-------------------------- MODULE OnboardingProofs --------------------------
(****************************************************************************)
(* Proofs about the registry and its wizards, for any number of operators,  *)
(* secrets, host keys and faults.                                           *)
(****************************************************************************)
EXTENDS Onboarding, TLAPS

------------------------------------------------------------------------------
(* The inductive invariant.                                                 *)

Stage ==
  {"none", "provider_token", "provider_rename", "provider_token_replace", "provider_confirm",
   "node_master_id", "node_rename", "node_token_replace", "node_api_token", "node_token",
   "node_ssh_port", "node_ssh_edit_port", "ssh_host_key_confirm", "node_ssh_secret",
   "node_ssh_edit_secret", "node_ssh", "node_confirm"}

WizardRow ==
  [stage : Stage, about : {"provider", "owner", "node", "gone", None}, staged : Reference,
   api : Reference, ssh : Reference, shown : Nat, resume : Stage \cup {None}]

\* What a wizard holds at a stage, key being the server's host key.
Collected(w, key) ==
  /\ w.shown <= key
  /\ w.stage = "node_confirm" => w.ssh # None
  /\ w.stage \in {"provider_confirm", "node_token", "node_ssh"} => w.staged # None
  /\ w.stage = "ssh_host_key_confirm" =>
       /\ w.shown # 0
       /\ w.resume \in {"node_ssh_secret", "node_ssh_edit_secret", "node_confirm"}
       /\ w.resume = "node_confirm" => w.ssh # None
       /\ w.resume = "node_ssh_secret" => w.ssh = None
       /\ w.resume # "node_ssh_edit_secret" => w.staged = None /\ w.about # "node"
  /\ w.stage \in {"none", "provider_rename", "node_rename", "node_master_id",
                  "provider_token_replace", "node_token_replace", "node_api_token"}
       => RefsOf(w) = {}
  /\ w.stage = "provider_token" /\ w.about = None => RefsOf(w) = {}
  /\ w.stage \in {"node_ssh_port", "node_ssh_secret", "node_confirm"}
       => w.staged = None /\ w.about # "node"
  /\ w.stage \in {"node_ssh_port", "node_ssh_secret"} => w.ssh = None
  /\ w.about = "node" \/ w.staged # None => w.api = None /\ w.ssh = None
  /\ w.api # None => w.api # w.ssh

WizardsTyped ==
  /\ wiz \in [User -> WizardRow]
  /\ \A u \in User : Collected(wiz[u], hostKey)

RowsTyped ==
  /\ files \subseteq Secret /\ unsure \subseteq Secret /\ provider \in Reference
  /\ node \in [there : BOOLEAN, api : Reference, ssh : Reference]
  /\ node.there <=> node.ssh # None
  /\ ~node.there => node.api = None
  /\ job \in [st : {"none", "running", "deployed", "ended"}, ref : Reference]
  /\ job.st # "none" => node.there
  /\ job.st \in {"none", "running"} => job.ref = None
  /\ faults \in 0..MaxFaults

KeysTyped ==
  /\ hostKey \in 1..MaxKeys /\ trusted \in 0..hostKey /\ confirmed \subseteq 1..hostKey

\* No two holders of one reference, unless it is one whose save went wrong.
Apart ==
  /\ \A u, v \in User : u # v => RefsOf(wiz[u]) \cap RefsOf(wiz[v]) = {}
  /\ \A u \in User : RefsOf(wiz[u]) \cap LiveSecrets \subseteq unsure
SlotsApart ==
  /\ provider # None /\ provider \in {node.api, node.ssh} => provider \in unsure
  /\ node.api # None /\ node.api = node.ssh => node.api \in unsure

\* The token of a deployment is nobody else's until the job ends.
DeployedApart ==
  job.st = "deployed" =>
    /\ job.ref \in files
    /\ job.ref \notin LiveSecrets \cup {busy.old}
    /\ \A u \in User : job.ref \notin RefsOf(wiz[u])

\* The reference a rotation is going to discard, and the one it is storing.
Rotating ==
  /\ busy \in [user : User \cup {None}, old : Reference]
  /\ ~Idle =>
       /\ busy.user \in User
       /\ wiz[busy.user].stage = "node_token" /\ wiz[busy.user].staged \in files
       /\ busy.old # None /\ busy.old \in {provider, node.ssh} => busy.old \in unsure

IInv ==
  /\ WizardsTyped /\ RowsTyped /\ KeysTyped
  /\ Apart /\ SlotsApart /\ DeployedApart /\ Rotating
  /\ LiveSecretsExist /\ OnlyConfirmedKeysTrusted

------------------------------------------------------------------------------
(* Lemmas about references.                                                 *)

\* A free reference is nobody's.
LEMMA FreeIsUnused ==
  ASSUME NEW ref \in Free
  PROVE  /\ ref \in Secret /\ ref # None /\ ref \notin files /\ ref \notin LiveSecrets
         /\ ref # busy.old /\ ref # job.ref
         /\ \A u \in User : ref \notin RefsOf(wiz[u])
BY RegistryAssumption DEF Free, Held, Referenced

\* A row of the wizards, field by field.
LEMMA Fields ==
  ASSUME NEW w \in WizardRow
  PROVE  /\ w = [stage |-> w.stage, about |-> w.about, staged |-> w.staged, api |-> w.api,
                 ssh |-> w.ssh, shown |-> w.shown, resume |-> w.resume]
         /\ RefsOf(w) \subseteq Secret
BY RegistryAssumption DEF WizardRow, RefsOf, Reference

\* An empty wizard may be put anywhere.
LEMMA Empty ==
  /\ NoWizard \in WizardRow /\ RefsOf(NoWizard) = {}
  /\ \A k \in Nat : Collected(NoWizard, k)
<1>1. NoWizard \in WizardRow
  BY DEF NoWizard, WizardRow, Reference, Stage
<1>2. RefsOf(NoWizard) = {}
  BY DEF NoWizard, RefsOf
<1>3. ASSUME NEW k \in Nat PROVE Collected(NoWizard, k)
  <2>1. /\ NoWizard.shown = 0 /\ NoWizard.stage = "none" /\ NoWizard.staged = None
        /\ NoWizard.api = None /\ NoWizard.ssh = None
    BY DEF NoWizard
  <2> QED
    BY <1>2, <2>1 DEF Collected
<1> QED
  BY <1>1, <1>2, <1>3

\* The initial state satisfies the invariant.
LEMMA InitInv == Init => IInv
<1> SUFFICES ASSUME Init PROVE IInv
  OBVIOUS
<1> USE RegistryAssumption DEF Init, RegistryInit, WizardsInit
<1>1. WizardsTyped
  BY Empty DEF WizardsTyped
<1>2. RowsTyped /\ KeysTyped /\ OnlyConfirmedKeysTrusted
  BY DEF RowsTyped, KeysTyped, OnlyConfirmedKeysTrusted, NoNode, Reference
<1>3. Apart /\ SlotsApart /\ LiveSecretsExist
  BY DEF Apart, SlotsApart, LiveSecretsExist, LiveSecrets, NoNode, NoWizard, RefsOf
<1>4. DeployedApart /\ Rotating
  BY DEF DeployedApart, Rotating, Idle, Reference
<1> QED
  BY <1>1, <1>2, <1>3, <1>4 DEF IInv

\* A step of one wizard that leaves the rows alone: it may take up fresh
\* references, delete files of its own ones, and touch known_hosts.
LEMMA WizardMoves ==
  ASSUME IInv, Idle, NEW u \in User, NEW w \in WizardRow, NEW fresh \in SUBSET Free,
         wiz' = [wiz EXCEPT ![u] = w], UNCHANGED <<busy, rows, hostKey>>,
         RefsOf(w) \subseteq RefsOf(wiz[u]) \cup fresh,
         Collected(w, hostKey),
         files' \subseteq Secret, files \ RefsOf(wiz[u]) \subseteq files',
         unsure' = unsure \ fresh, faults' \in 0..MaxFaults,
         KeysTyped', OnlyConfirmedKeysTrusted'
  PROVE  IInv'
<1> USE DEF IInv, rows
<1>0. /\ \A x \in fresh : x \notin LiveSecrets /\ x # job.ref
                          /\ \A v \in User : x \notin RefsOf(wiz[v])
      /\ wiz'[u] = w /\ \A v \in User \ {u} : wiz'[v] = wiz[v]
      /\ LiveSecrets' = LiveSecrets
  BY FreeIsUnused DEF WizardsTyped, LiveSecrets
<1>1. WizardsTyped'
  BY <1>0 DEF WizardsTyped
<1>2. RowsTyped'
  BY <1>0 DEF RowsTyped
<1>3. Apart'
  <2>1. \A v \in User \ {u} : RefsOf(w) \cap RefsOf(wiz[v]) = {}
    BY <1>0 DEF Apart
  <2>2. RefsOf(w) \cap LiveSecrets \subseteq unsure'
    BY <1>0 DEF Apart
  <2>3. \A v \in User : (RefsOf(wiz[v]))' = RefsOf(wiz'[v])
    BY DEF RefsOf
  <2> QED
    BY <1>0, <2>1, <2>2, <2>3 DEF Apart
<1>4. SlotsApart'
  BY <1>0 DEF SlotsApart, LiveSecrets
<1>5. DeployedApart'
  <2>1. \A v \in User : (RefsOf(wiz[v]))' = RefsOf(wiz'[v])
    BY DEF RefsOf
  <2> QED
    BY <1>0, <2>1 DEF DeployedApart
<1>6. Rotating'
  BY DEF Rotating, Idle
<1>7. LiveSecretsExist'
  BY <1>0 DEF LiveSecretsExist, Apart
<1> QED
  BY <1>1, <1>2, <1>3, <1>4, <1>5, <1>6, <1>7

\* A confirmed save: references of the wizard become live, others are
\* superseded, and the files of those go unless something fails.
LEMMA SaveConcludes ==
  ASSUME IInv, Idle, NEW u \in User, NEW new, NEW old,
         new \subseteq RefsOf(wiz[u]), new \subseteq files,
         old \subseteq LiveSecrets \cup {None},
         Conclude(u, new, old), UNCHANGED <<job, keys>>,
         LiveSecrets' \subseteq LiveSecrets \cup new,
         (old \ new) \cap LiveSecrets' \subseteq unsure \cup {None},
         RowsTyped', SlotsApart'
  PROVE  IInv'
<1> USE DEF IInv
<1>0. /\ unsure \subseteq unsure' /\ busy' = busy /\ keys' = keys
      /\ files' = files \/ files' = files \ (old \ new)
      /\ \/ wiz' = wiz /\ unsure' = unsure \cup new /\ files' = files
         \/ wiz' = [wiz EXCEPT ![u] = NoWizard] /\ unsure' = unsure
      /\ job' = job
  BY DEF Conclude, Show, keys
<1>1. RefsOf(NoWizard) = {} /\ NoWizard \in WizardRow /\ Collected(NoWizard, hostKey)
  BY Empty, RegistryAssumption DEF KeysTyped
<1>2. /\ hostKey' = hostKey
      /\ \A v \in User : wiz'[v] = wiz[v] \/ wiz'[v] = NoWizard
      /\ wiz'[u] = NoWizard \/ new \subseteq unsure'
      /\ \A v \in User \ {u} : wiz'[v] = wiz[v]
      /\ wiz' \in [User -> WizardRow]
  BY <1>0, <1>1 DEF keys, WizardsTyped
<1>3. \A v \in User : (RefsOf(wiz[v]))' = RefsOf(wiz'[v])
                      /\ RefsOf(wiz'[v]) \subseteq RefsOf(wiz[v])
  BY <1>1, <1>2 DEF RefsOf
<1>4. WizardsTyped'
  BY <1>1, <1>2 DEF WizardsTyped
<1>5. KeysTyped' /\ OnlyConfirmedKeysTrusted'
  BY <1>0 DEF KeysTyped, OnlyConfirmedKeysTrusted, keys
<1>6. Apart'
  <2>1. \A v \in User : RefsOf(wiz'[v]) \cap LiveSecrets' \subseteq unsure'
    BY <1>0, <1>1, <1>2, <1>3 DEF Apart
  <2> QED
    BY <1>2, <1>3, <2>1 DEF Apart
<1>7. DeployedApart'
  <2>1. ASSUME job.st = "deployed"
        PROVE  /\ job.ref \in files' /\ job.ref \notin LiveSecrets'
               /\ \A v \in User : job.ref \notin RefsOf(wiz'[v])
    <3>1. job.ref \notin LiveSecrets \cup new /\ job.ref # None
      BY <2>1, RegistryAssumption DEF DeployedApart, RowsTyped
    <3> QED
      BY <1>0, <1>3, <2>1, <3>1 DEF DeployedApart
  <2> QED
    BY <1>0, <1>3, <2>1 DEF DeployedApart
<1>8. Rotating'
  BY <1>0 DEF Rotating, Idle
<1>9. LiveSecretsExist'
  BY <1>0 DEF LiveSecretsExist, LiveSecrets
<1> QED
  BY <1>4, <1>5, <1>6, <1>7, <1>8, <1>9

------------------------------------------------------------------------------
(* The steps of a wizard.                                                   *)

\* A wizard that starts holds nothing.
LEMMA Fresh ==
  ASSUME NEW stage \in {"provider_token", "provider_rename", "provider_token_replace",
                        "node_master_id", "node_rename", "node_token_replace",
                        "node_ssh_edit_port"},
         NEW about \in {"provider", "owner", "node", None}
  PROVE  /\ Wizard(stage, about) \in WizardRow /\ RefsOf(Wizard(stage, about)) = {}
         /\ \A k \in Nat : Collected(Wizard(stage, about), k)
<1> DEFINE w == Wizard(stage, about)
<1>1. /\ w.stage = stage /\ w.about = about /\ w.staged = None /\ w.api = None
      /\ w.ssh = None /\ w.shown = 0 /\ w \in WizardRow
  BY DEF Wizard, NoWizard, WizardRow, Reference, Stage
<1>2. RefsOf(w) = {}
  BY <1>1 DEF RefsOf
<1>3. ASSUME NEW k \in Nat PROVE Collected(w, k)
  BY <1>1, <1>2 DEF Collected
<1> QED
  BY <1>1, <1>2, <1>3

\* known_hosts and the host key are left alone.
LEMMA KeysKept ==
  ASSUME IInv, UNCHANGED keys
  PROVE  KeysTyped' /\ OnlyConfirmedKeysTrusted'
BY DEF IInv, KeysTyped, OnlyConfirmedKeysTrusted, keys

\* However far a removal of files gets, only files to be removed go.
LEMMA OnlyDiscarded ==
  ASSUME IInv, NEW refs, NEW tails, Discard(refs) \/ DiscardFails(refs, tails)
  PROVE  /\ files' \subseteq files /\ files \ refs \subseteq files'
         /\ files' \subseteq Secret /\ faults' \in 0..MaxFaults
<1>1. files \subseteq Secret /\ faults \in 0..MaxFaults
  BY DEF IInv, RowsTyped
<1>2. faults' \in 0..MaxFaults
  BY <1>1, RegistryAssumption DEF Discard, DiscardFails, Fault
<1>3. files' \subseteq files /\ files \ refs \subseteq files'
  BY DEF Discard, DiscardFails
<1> QED
  BY <1>1, <1>2, <1>3

\* Leaving a wizard with Cancel, or for an add wizard.
LEMMA InvLeave ==
  ASSUME IInv, NEW u \in User, NEW w \in WizardRow, RefsOf(w) = {}, Collected(w, hostKey),
         Leave(u, w)
  PROVE  IInv'
<1>1. /\ Idle /\ UNCHANGED <<busy, rows, keys, unsure>> /\ hostKey' = hostKey
      /\ \E v \in {w, NoWizard} : wiz' = [wiz EXCEPT ![u] = v]
  BY DEF Leave, Show, keys
<1>2. /\ files' \subseteq files /\ files \ RefsOf(wiz[u]) \subseteq files'
      /\ files' \subseteq Secret /\ faults' \in 0..MaxFaults
  BY OnlyDiscarded DEF Leave
<1>3. PICK v \in {w, NoWizard} : wiz' = [wiz EXCEPT ![u] = v]
  BY <1>1
<1>4. v \in WizardRow /\ RefsOf(v) = {} /\ Collected(v, hostKey)
  BY <1>3, Empty, RegistryAssumption DEF IInv, KeysTyped
<1> QED
  BY <1>1, <1>2, <1>3, <1>4, KeysKept, WizardMoves

\* The buttons that start and leave wizards.
LEMMA InvSteer ==
  ASSUME IInv, NEW u \in User, Steer(u)
  PROVE  IInv'
<1>0. hostKey \in Nat
  BY RegistryAssumption DEF IInv, KeysTyped
<1>1. CASE Cancel(u)
  BY <1>0, <1>1, Empty, InvLeave DEF Cancel
<1>2. CASE StartProviderAdd(u)
  BY <1>0, <1>2, Fresh, InvLeave DEF StartProviderAdd
<1>3. CASE StartNodeAdd(u)
  BY <1>0, <1>3, Empty, Fresh, InvLeave DEF StartNodeAdd
<1>4. CASE Overwrite(u)
  <2>1. PICK stage \in {"provider_token", "provider_rename", "provider_token_replace",
                        "node_master_id", "node_rename", "node_token_replace",
                        "node_ssh_edit_port"},
             about \in {"provider", "owner", "node", None} :
               Show(u, Wizard(stage, about))
    BY <1>4 DEF Overwrite
  <2>2. UNCHANGED <<files, rows, keys, unsure, faults>> /\ Idle
    BY <1>4 DEF Overwrite, registry
  <2>3. /\ wiz' = [wiz EXCEPT ![u] = Wizard(stage, about)] /\ hostKey' = hostKey
        /\ UNCHANGED <<busy, rows, keys, unsure, faults, files>>
    BY <2>1, <2>2 DEF Show, keys
  <2>4. files' \subseteq Secret /\ faults' \in 0..MaxFaults
    BY <2>3 DEF IInv, RowsTyped
  <2> QED
    BY <1>0, <2>2, <2>3, <2>4, Fresh, KeysKept, WizardMoves
<1> QED
  BY <1>1, <1>2, <1>3, <1>4 DEF Steer

\* An answer that is only noted.
LEMMA Noted ==
  ASSUME IInv, Idle, NEW u \in User, NEW w \in WizardRow, Show(u, w),
         RefsOf(w) \subseteq RefsOf(wiz[u]), Collected(w, hostKey),
         UNCHANGED <<files, rows, keys, unsure>>, faults' \in 0..MaxFaults
  PROVE  IInv'
<1>1. /\ wiz' = [wiz EXCEPT ![u] = w] /\ UNCHANGED <<busy, rows, keys, unsure, files>>
      /\ hostKey' = hostKey
  BY DEF Show, keys
<1>2. files' \subseteq Secret
  BY <1>1 DEF IInv, RowsTyped
<1>3. /\ {} \in SUBSET Free /\ RefsOf(w) \subseteq RefsOf(wiz[u]) \cup {}
      /\ files \ RefsOf(wiz[u]) \subseteq files' /\ unsure' = unsure \ {}
      /\ UNCHANGED <<busy, rows, hostKey>>
  BY <1>1
<1>4. KeysTyped' /\ OnlyConfirmedKeysTrusted'
  BY <1>1, KeysKept
<1> QED
  BY <1>1, <1>2, <1>3, <1>4, WizardMoves

\* A staged secret: its file and its reference appear together.
LEMMA Filed ==
  ASSUME IInv, Idle, NEW u \in User, NEW w \in WizardRow, NEW ref, Staged(ref), Show(u, w),
         RefsOf(w) \subseteq RefsOf(wiz[u]) \cup {ref}, Collected(w, hostKey)
  PROVE  IInv'
<1>1. /\ wiz' = [wiz EXCEPT ![u] = w] /\ UNCHANGED <<busy, rows, keys, faults>>
      /\ files' = files \cup {ref} /\ unsure' = unsure \ {ref} /\ hostKey' = hostKey
      /\ {ref} \in SUBSET Free
  BY DEF Show, Staged, keys
<1>2. files' \subseteq Secret /\ files \ RefsOf(wiz[u]) \subseteq files'
      /\ faults' \in 0..MaxFaults
  BY <1>1, FreeIsUnused DEF IInv, RowsTyped
<1> HIDE DEF IInv
<1> QED
  BY <1>1, <1>2, KeysKept, WizardMoves

\* The host key as it is now, shown to an operator.
LEMMA InvAskHostKey ==
  ASSUME IInv, Idle, NEW u \in User,
         NEW resume \in {"node_ssh_secret", "node_ssh_edit_secret", "node_confirm"},
         resume = "node_confirm" => wiz[u].ssh # None,
         resume = "node_ssh_secret" => wiz[u].ssh = None,
         resume # "node_ssh_edit_secret" => wiz[u].staged = None /\ wiz[u].about # "node",
         AskHostKey(u, resume)
  PROVE  IInv'
<1> DEFINE w == [wiz[u] EXCEPT !.stage = "ssh_host_key_confirm", !.shown = hostKey,
                               !.resume = resume]
<1>1. wiz[u] \in WizardRow /\ Collected(wiz[u], hostKey) /\ hostKey \in Nat \ {0}
  BY RegistryAssumption DEF IInv, WizardsTyped, KeysTyped
<1>2. /\ w \in WizardRow /\ w.stage = "ssh_host_key_confirm" /\ w.shown = hostKey
      /\ w.resume = resume /\ w.staged = wiz[u].staged /\ w.api = wiz[u].api
      /\ w.ssh = wiz[u].ssh /\ w.about = wiz[u].about
  BY <1>1 DEF WizardRow, Stage
<1>3. RefsOf(w) = RefsOf(wiz[u])
  BY <1>2 DEF RefsOf
<1>4. Collected(w, hostKey)
  BY <1>1, <1>2, <1>3 DEF Collected
<1>5. Show(u, w) /\ UNCHANGED <<files, rows, keys, unsure, faults>>
  BY DEF AskHostKey, registry
<1>6. faults' \in 0..MaxFaults
  BY <1>5 DEF IInv, RowsTyped
<1> QED
  BY <1>2, <1>3, <1>4, <1>5, <1>6, Noted

\* Buttons and answers that only move the wizard on.
LEMMA InvNotes ==
  ASSUME IInv, NEW u \in User, SshEditAuth(u) \/ Rename(u) \/ Discover(u) \/ SshPort(u)
  PROVE  IInv'
<1>1. /\ wiz[u] \in WizardRow /\ Collected(wiz[u], hostKey)
      /\ hostKey \in Nat \ {0} /\ faults \in 0..MaxFaults
  BY RegistryAssumption DEF IInv, WizardsTyped, KeysTyped, RowsTyped
<1>2. CASE SshEditAuth(u)
  <2> DEFINE w == [wiz[u] EXCEPT !.stage = "node_ssh_edit_port"]
  <2>1. /\ w \in WizardRow /\ w.stage = "node_ssh_edit_port" /\ w.shown = wiz[u].shown
        /\ w.staged = wiz[u].staged /\ w.api = wiz[u].api
        /\ w.ssh = wiz[u].ssh /\ w.about = wiz[u].about
    BY <1>1 DEF WizardRow, Stage
  <2>2. RefsOf(w) = RefsOf(wiz[u]) /\ Collected(w, hostKey)
    BY <1>1, <2>1 DEF Collected, RefsOf
  <2>3. Idle /\ Show(u, w) /\ UNCHANGED <<files, rows, keys, unsure, faults>>
    BY <1>2 DEF SshEditAuth, Goto, registry
  <2> QED
    BY <1>1, <2>1, <2>2, <2>3, Noted
<1>3. CASE Rename(u)
  <2>1. Idle /\ Show(u, NoWizard) /\ UNCHANGED <<files, rows, keys, unsure, faults>>
    BY <1>3 DEF Rename, At, registry
  <2> QED
    BY <1>1, <2>1, Empty, Noted
<1>4. CASE Discover(u)
  <2>1. PICK stage \in {"node_ssh_port", "node_api_token"} : Goto(u, stage)
    BY <1>4 DEF Discover
  <2> DEFINE w == [wiz[u] EXCEPT !.stage = stage]
  <2>2. /\ w \in WizardRow /\ w.stage = stage /\ w.shown = wiz[u].shown
        /\ w.staged = wiz[u].staged /\ w.api = wiz[u].api
        /\ w.ssh = wiz[u].ssh /\ w.about = wiz[u].about
    BY <1>1 DEF WizardRow, Stage
  <2>3. RefsOf(w) = RefsOf(wiz[u]) /\ Collected(w, hostKey)
    <3>1. wiz[u].stage = "node_master_id" /\ wiz[u].about = "owner"
      BY <1>4 DEF Discover, At, About
    <3> QED
      BY <1>1, <2>2, <3>1 DEF Collected, RefsOf
  <2>4. Idle /\ Show(u, w) /\ UNCHANGED <<files, rows, keys, unsure, faults>>
    BY <1>4, <2>1 DEF Discover, At, Goto, registry
  <2> QED
    BY <1>1, <2>2, <2>3, <2>4, Noted
<1>5. CASE SshPort(u)
  <2>1. CASE At(u, "node_ssh_port") /\ AskHostKey(u, "node_ssh_secret")
    <3>1. Idle /\ wiz[u].staged = None /\ wiz[u].ssh = None /\ wiz[u].about # "node"
      BY <1>1, <2>1 DEF At, Collected
    <3> QED
      BY <2>1, <3>1, InvAskHostKey
  <2>2. CASE At(u, "node_ssh_edit_port") /\ AskHostKey(u, "node_ssh_edit_secret")
    BY <2>2, InvAskHostKey DEF At
  <2> QED
    BY <1>5, <2>1, <2>2 DEF SshPort
<1> QED
  BY <1>2, <1>3, <1>4, <1>5

\* Answers that become files.
LEMMA InvTokens ==
  ASSUME IInv, NEW u \in User,
         ProviderToken(u) \/ ProviderTokenReplace(u) \/ NodeTokenReplace(u) \/ NodeApiToken(u)
  PROVE  IInv'
<1>0. Idle
  BY DEF ProviderToken, ProviderTokenReplace, NodeTokenReplace, NodeApiToken, At
<1>1. /\ wiz[u] \in WizardRow /\ Collected(wiz[u], hostKey) /\ Idle
      /\ hostKey \in Nat \ {0} /\ faults \in 0..MaxFaults
  BY <1>0, RegistryAssumption DEF IInv, WizardsTyped, KeysTyped, RowsTyped
<1>2. CASE ProviderToken(u) \/ ProviderTokenReplace(u) \/ NodeTokenReplace(u)
  <2>1. /\ RefsOf(wiz[u]) = {}
        /\ wiz[u].stage = "provider_token_replace" => wiz[u].about = "provider"
        /\ \E stage \in {"provider_confirm", "provider_token", "node_token"}, ref \in Secret :
             /\ Staged(ref) /\ Show(u, [wiz[u] EXCEPT !.staged = ref, !.stage = stage])
             /\ stage = "provider_token" => wiz[u].about = "provider"
    BY <1>1, <1>2 DEF ProviderToken, ProviderTokenReplace, NodeTokenReplace, At, About,
       Collected
  <2>2. PICK stage \in {"provider_confirm", "provider_token", "node_token"}, ref \in Secret :
             /\ Staged(ref) /\ Show(u, [wiz[u] EXCEPT !.staged = ref, !.stage = stage])
             /\ stage = "provider_token" => wiz[u].about = "provider"
    BY <2>1
  <2> DEFINE w == [wiz[u] EXCEPT !.staged = ref, !.stage = stage]
  <2>3. /\ w \in WizardRow /\ w.stage = stage /\ w.shown = wiz[u].shown
        /\ w.staged = ref /\ w.api = wiz[u].api
        /\ w.ssh = wiz[u].ssh /\ w.about = wiz[u].about
    BY <1>1 DEF WizardRow, Stage, Reference
  <2>4. wiz[u].api = None /\ wiz[u].ssh = None /\ ref # None
    BY <2>1, RegistryAssumption DEF RefsOf
  <2>5. RefsOf(w) \subseteq RefsOf(wiz[u]) \cup {ref}
    BY <2>3, <2>4 DEF RefsOf
  <2>6. Collected(w, hostKey)
    BY <1>1, <2>2, <2>3, <2>4, WizardsAssumption DEF Collected
  <2> QED
    BY <1>1, <2>2, <2>3, <2>5, <2>6, Filed
<1>3. CASE NodeApiToken(u)
  <2>1. RefsOf(wiz[u]) = {} /\ wiz[u].about = "owner"
    BY <1>1, <1>3 DEF NodeApiToken, At, About, Collected
  <2>2. wiz[u].api = None /\ wiz[u].ssh = None /\ wiz[u].staged = None
    BY <2>1, RegistryAssumption DEF RefsOf
  <2>3. ASSUME NEW ref \in Secret, Staged(ref),
               Show(u, [wiz[u] EXCEPT !.api = ref, !.stage = "node_ssh_port"])
        PROVE  IInv'
    <3> DEFINE w == [wiz[u] EXCEPT !.api = ref, !.stage = "node_ssh_port"]
    <3>1. /\ w \in WizardRow /\ w.stage = "node_ssh_port" /\ w.shown = wiz[u].shown
          /\ w.staged = wiz[u].staged /\ w.api = ref
          /\ w.ssh = wiz[u].ssh /\ w.about = wiz[u].about
      BY <1>1 DEF WizardRow, Stage, Reference
    <3>2. RefsOf(w) \subseteq RefsOf(wiz[u]) \cup {ref}
      BY <2>2, <3>1 DEF RefsOf
    <3>3. Collected(w, hostKey)
      BY <1>1, <2>1, <2>2, <3>1, RegistryAssumption, WizardsAssumption DEF Collected
    <3> QED
      BY <1>1, <2>3, <3>1, <3>2, <3>3, Filed
  <2>4. CASE Fault /\ Goto(u, "node_ssh_port") /\ UNCHANGED <<files, rows, keys, unsure>>
    <3> DEFINE w == [wiz[u] EXCEPT !.stage = "node_ssh_port"]
    <3>1. /\ w \in WizardRow /\ w.stage = "node_ssh_port" /\ w.shown = wiz[u].shown
          /\ w.staged = wiz[u].staged /\ w.api = wiz[u].api
          /\ w.ssh = wiz[u].ssh /\ w.about = wiz[u].about
      BY <1>1 DEF WizardRow, Stage
    <3>2. RefsOf(w) = RefsOf(wiz[u]) /\ Collected(w, hostKey)
      BY <1>1, <2>1, <2>2, <3>1 DEF Collected, RefsOf
    <3>3. faults' \in 0..MaxFaults /\ Show(u, w)
      BY <1>1, <2>4, RegistryAssumption DEF Fault, Goto
    <3> QED
      BY <1>1, <2>4, <3>1, <3>2, <3>3, Noted
  <2> QED
    BY <1>3, <2>3, <2>4 DEF NodeApiToken
<1> QED
  BY <1>2, <1>3

\* A confirmed host key enters known_hosts.
LEMMA InvConfirmHostKey ==
  ASSUME IInv, NEW u \in User, ConfirmHostKey(u)
  PROVE  IInv'
<1> DEFINE w == [wiz[u] EXCEPT !.stage = wiz[u].resume, !.shown = 0, !.resume = None]
<1>1. /\ wiz[u] \in WizardRow /\ Collected(wiz[u], hostKey) /\ hostKey \in 1..MaxKeys
      /\ MaxKeys \in Nat
  BY RegistryAssumption DEF IInv, WizardsTyped, KeysTyped
<1>2. /\ Idle /\ wiz[u].stage = "ssh_host_key_confirm" /\ hostKey = wiz[u].shown
      /\ trusted' = hostKey /\ confirmed' = confirmed \cup {hostKey}
      /\ wiz' = [wiz EXCEPT ![u] = w] /\ UNCHANGED <<busy, files, rows, hostKey, unsure, faults>>
  BY DEF ConfirmHostKey, At, Trust, Show
<1>3. wiz[u].resume \in {"node_ssh_secret", "node_ssh_edit_secret", "node_confirm"}
  BY <1>1, <1>2 DEF Collected
<1>4. /\ w \in WizardRow /\ w.stage = wiz[u].resume /\ w.shown = 0
      /\ w.staged = wiz[u].staged /\ w.api = wiz[u].api
      /\ w.ssh = wiz[u].ssh /\ w.about = wiz[u].about
  BY <1>1, <1>3 DEF WizardRow, Stage
<1>5. RefsOf(w) = RefsOf(wiz[u])
  BY <1>4 DEF RefsOf
<1>6. Collected(w, hostKey)
  BY <1>1, <1>2, <1>3, <1>4, <1>5 DEF Collected
<1>7. files' \subseteq Secret /\ faults' \in 0..MaxFaults
  BY <1>2 DEF IInv, RowsTyped
<1>8. KeysTyped' /\ OnlyConfirmedKeysTrusted'
  BY <1>1, <1>2 DEF IInv, KeysTyped, OnlyConfirmedKeysTrusted
<1>9. /\ {} \in SUBSET Free /\ RefsOf(w) \subseteq RefsOf(wiz[u]) \cup {}
      /\ files \ RefsOf(wiz[u]) \subseteq files' /\ unsure' = unsure \ {}
      /\ UNCHANGED <<busy, rows, hostKey>>
  BY <1>2, <1>5
<1> QED
  BY <1>2, <1>4, <1>6, <1>7, <1>8, <1>9, WizardMoves

\* A node's first SSH credential, and one that replaces it.
LEMMA InvSshSecrets ==
  ASSUME IInv, NEW u \in User, SshSecret(u) \/ SshEditSecret(u)
  PROVE  IInv'
<1>1. wiz[u] \in WizardRow /\ Collected(wiz[u], hostKey)
  BY DEF IInv, WizardsTyped
<1>2. CASE SshSecret(u)
  <2>1. /\ Idle /\ wiz[u].stage = "node_ssh_secret"
        /\ wiz[u].staged = None /\ wiz[u].ssh = None /\ wiz[u].about # "node"
    BY <1>1, <1>2 DEF SshSecret, At, Collected
  <2>2. CASE AskHostKey(u, "node_ssh_secret")
    BY <2>1, <2>2, InvAskHostKey
  <2>3. ASSUME NEW ref \in Secret, Staged(ref),
               Show(u, [wiz[u] EXCEPT !.ssh = ref, !.stage = "node_confirm"])
        PROVE  IInv'
    <3> DEFINE w == [wiz[u] EXCEPT !.ssh = ref, !.stage = "node_confirm"]
    <3>1. /\ w \in WizardRow /\ w.stage = "node_confirm" /\ w.shown = wiz[u].shown
          /\ w.staged = None /\ w.api = wiz[u].api /\ w.ssh = ref /\ w.about = wiz[u].about
      BY <1>1, <2>1 DEF WizardRow, Stage, Reference
    <3>2. RefsOf(w) \subseteq RefsOf(wiz[u]) \cup {ref}
      BY <3>1 DEF RefsOf
    <3>3. ref # None /\ ref \notin RefsOf(wiz[u])
      BY <2>3, FreeIsUnused DEF Staged
    <3>4. wiz[u].api # None => wiz[u].api # ref
      BY <3>3 DEF RefsOf
    <3>5. Collected(w, hostKey)
      BY <1>1, <2>1, <3>1, <3>3, <3>4 DEF Collected
    <3> QED
      BY <2>1, <2>3, <3>1, <3>2, <3>5, Filed
  <2> QED
    BY <1>2, <2>2, <2>3 DEF SshSecret
<1>3. CASE SshEditSecret(u)
  <2>1. /\ Idle /\ wiz[u].about = "node" /\ wiz[u].api = None /\ wiz[u].ssh = None
    BY <1>1, <1>3 DEF SshEditSecret, At, About, Collected
  <2>2. CASE AskHostKey(u, "node_ssh_edit_secret")
    BY <2>1, <2>2, InvAskHostKey
  <2>3. ASSUME NEW ref \in Secret, Staged(ref),
               Show(u, [wiz[u] EXCEPT !.staged = ref, !.stage = "node_ssh"])
        PROVE  IInv'
    <3> DEFINE w == [wiz[u] EXCEPT !.staged = ref, !.stage = "node_ssh"]
    <3>1. /\ w \in WizardRow /\ w.stage = "node_ssh" /\ w.shown = wiz[u].shown
          /\ w.staged = ref /\ w.api = None /\ w.ssh = None /\ w.about = "node"
      BY <1>1, <2>1 DEF WizardRow, Stage, Reference
    <3>2. RefsOf(w) \subseteq RefsOf(wiz[u]) \cup {ref}
      BY <3>1 DEF RefsOf
    <3>3. Collected(w, hostKey)
      BY <1>1, <3>1, RegistryAssumption DEF Collected
    <3> QED
      BY <2>1, <2>3, <3>1, <3>2, <3>3, Filed
  <2> QED
    BY <1>3, <2>2, <2>3 DEF SshEditSecret
<1> QED
  BY <1>2, <1>3

------------------------------------------------------------------------------
(* Confirmations.                                                           *)

\* A provider is registered with the staged token.
LEMMA InvSaveProvider ==
  ASSUME IInv, NEW u \in User, SaveProvider(u)
  PROVE  IInv'
<1> DEFINE ref == wiz[u].staged
<1>1. wiz[u] \in WizardRow /\ RowsTyped /\ LiveSecretsExist /\ Apart
  BY DEF IInv, WizardsTyped
<1>2. /\ Idle /\ Conclude(u, {ref}, {}) /\ provider = None /\ ref \in files /\ provider' = ref
      /\ UNCHANGED <<node, job, keys>>
  BY DEF SaveProvider, At, InsertProvider
<1>3. ref \in Secret /\ ref # None /\ ref \in RefsOf(wiz[u])
  BY <1>1, <1>2, RegistryAssumption DEF RowsTyped, RefsOf
<1>4. LiveSecrets' \subseteq LiveSecrets \cup {ref}
  BY <1>2 DEF LiveSecrets
<1>5. files' \subseteq Secret /\ unsure' \subseteq Secret /\ faults' \in 0..MaxFaults
      /\ unsure \subseteq unsure'
  BY <1>1, <1>2, <1>3, RegistryAssumption DEF Conclude, Fault, RowsTyped
<1>6. RowsTyped'
  BY <1>1, <1>2, <1>3, <1>5 DEF RowsTyped, Reference
<1>7. ref \in LiveSecrets => ref \in unsure
  BY <1>1, <1>3 DEF Apart
<1>8. SlotsApart'
  BY <1>2, <1>3, <1>5, <1>7 DEF IInv, SlotsApart, LiveSecrets
<1> QED
  BY <1>2, <1>3, <1>4, <1>6, <1>8, SaveConcludes

\* A provider's token is replaced.
LEMMA InvReplaceProviderToken ==
  ASSUME IInv, NEW u \in User, ReplaceProviderToken(u)
  PROVE  IInv'
<1> DEFINE ref == wiz[u].staged
<1>1. wiz[u] \in WizardRow /\ RowsTyped /\ Apart /\ SlotsApart
  BY DEF IInv, WizardsTyped
<1>2. /\ Idle /\ Conclude(u, {ref}, {provider}) /\ provider # None /\ ref \in files
      /\ provider' = ref /\ UNCHANGED <<node, job, keys>>
  BY DEF ReplaceProviderToken, At, SetProviderToken
<1>3. ref \in Secret /\ ref # None /\ ref \in RefsOf(wiz[u])
  BY <1>1, <1>2, RegistryAssumption DEF RowsTyped, RefsOf
<1>4. /\ LiveSecrets' \subseteq LiveSecrets \cup {ref} /\ {provider} \subseteq LiveSecrets
      /\ ({provider} \ {ref}) \cap LiveSecrets' \subseteq unsure
  BY <1>1, <1>2 DEF LiveSecrets, SlotsApart
<1>5. files' \subseteq Secret /\ unsure' \subseteq Secret /\ faults' \in 0..MaxFaults
      /\ unsure \subseteq unsure'
  BY <1>1, <1>2, <1>3, RegistryAssumption DEF Conclude, Fault, RowsTyped
<1>6. RowsTyped'
  BY <1>1, <1>2, <1>3, <1>5 DEF RowsTyped, Reference
<1>7. ref \in LiveSecrets => ref \in unsure
  BY <1>1, <1>3 DEF Apart
<1>8. SlotsApart'
  BY <1>1, <1>2, <1>3, <1>5, <1>7 DEF SlotsApart, LiveSecrets
<1> QED
  BY <1>2, <1>3, <1>4, <1>6, <1>8, SaveConcludes

\* A node's SSH credential is replaced.
LEMMA InvReplaceNodeSsh ==
  ASSUME IInv, NEW u \in User, ReplaceNodeSsh(u)
  PROVE  IInv'
<1> DEFINE ref == wiz[u].staged
<1>1. wiz[u] \in WizardRow /\ RowsTyped /\ Apart /\ SlotsApart
  BY DEF IInv, WizardsTyped
<1>2. /\ Idle /\ Conclude(u, {ref}, {node.ssh}) /\ node.there /\ ref \in files
      /\ node' = [node EXCEPT !.ssh = ref] /\ UNCHANGED <<provider, job, keys>>
  BY DEF ReplaceNodeSsh, At, SetNodeSsh
<1>3. ref \in Secret /\ ref # None /\ ref \in RefsOf(wiz[u])
  BY <1>1, <1>2, RegistryAssumption DEF RowsTyped, RefsOf
<1>4. /\ node' \in [there : BOOLEAN, api : Reference, ssh : Reference]
      /\ node'.there /\ node'.api = node.api /\ node'.ssh = ref /\ node.ssh # None
  BY <1>1, <1>2, <1>3 DEF RowsTyped, Reference
<1>5. /\ LiveSecrets' \subseteq LiveSecrets \cup {ref} /\ {node.ssh} \subseteq LiveSecrets
      /\ ({node.ssh} \ {ref}) \cap LiveSecrets' \subseteq unsure
  BY <1>1, <1>2, <1>4 DEF LiveSecrets, SlotsApart
<1>6. files' \subseteq Secret /\ unsure' \subseteq Secret /\ faults' \in 0..MaxFaults
      /\ unsure \subseteq unsure'
  BY <1>1, <1>2, <1>3, RegistryAssumption DEF Conclude, Fault, RowsTyped
<1>7. RowsTyped'
  BY <1>1, <1>2, <1>3, <1>4, <1>6 DEF RowsTyped
<1>8. ref \in LiveSecrets => ref \in unsure
  BY <1>1, <1>3 DEF Apart
<1>9. SlotsApart'
  BY <1>1, <1>2, <1>3, <1>4, <1>6, <1>8 DEF SlotsApart, LiveSecrets
<1> QED
  BY <1>2, <1>3, <1>5, <1>7, <1>9, SaveConcludes

\* A node is registered, or refreshed with another API token or login.
LEMMA InvSaveNode ==
  ASSUME IInv, NEW u \in User, SaveNode(u)
  PROVE  IInv'
<1> DEFINE w == wiz[u]
           new == RefsOf(w)
<1>1. wiz[u] \in WizardRow /\ RowsTyped /\ Apart /\ SlotsApart /\ Collected(w, hostKey)
  BY DEF IInv, WizardsTyped
<1>2. /\ Idle /\ w.stage = "node_confirm" /\ Conclude(u, new, {})
      /\ {w.api, w.ssh} \ {None} \subseteq files
      /\ node' = [there |-> TRUE, api |-> IF w.api = None THEN node.api ELSE w.api,
                  ssh |-> w.ssh]
      /\ UNCHANGED <<provider, job, keys>>
  BY DEF SaveNode, At, RegisterNode
<1>3. w.ssh # None /\ w.staged = None /\ (w.api # None => w.api # w.ssh)
  BY <1>1, <1>2 DEF Collected
<1>4. /\ new = {w.api, w.ssh} \ {None} /\ new \subseteq files /\ new \subseteq Secret
      /\ w.api \in Reference /\ w.ssh \in Reference
  BY <1>1, <1>2, <1>3 DEF RefsOf, RowsTyped, WizardRow
<1>5. /\ node'.there /\ node'.ssh = w.ssh /\ node'.api \in {node.api, w.api}
      /\ node'.api = w.api \/ w.api = None
      /\ node' \in [there : BOOLEAN, api : Reference, ssh : Reference]
  BY <1>1, <1>2, <1>4 DEF RowsTyped
<1>6. LiveSecrets' \subseteq LiveSecrets \cup new
  BY <1>2, <1>4, <1>5 DEF LiveSecrets
<1>7. files' \subseteq Secret /\ unsure' \subseteq Secret /\ faults' \in 0..MaxFaults
      /\ unsure \subseteq unsure'
  BY <1>1, <1>2, <1>4, RegistryAssumption DEF Conclude, Fault, RowsTyped
<1>8. RowsTyped'
  BY <1>1, <1>2, <1>3, <1>5, <1>7 DEF RowsTyped
<1>9. SlotsApart'
  <2>1. new \cap LiveSecrets \subseteq unsure
    BY <1>1 DEF Apart
  <2>2. w.ssh \in LiveSecrets => w.ssh \in unsure'
    BY <1>3, <1>4, <1>7, <2>1
  <2>3. w.api # None /\ w.api \in LiveSecrets => w.api \in unsure'
    BY <1>4, <1>7, <2>1
  <2> QED
    BY <1>1, <1>2, <1>3, <1>5, <1>7, <2>2, <2>3 DEF SlotsApart, LiveSecrets
<1>10. /\ {} \subseteq LiveSecrets \cup {None}
       /\ ({} \ new) \cap LiveSecrets' \subseteq unsure \cup {None}
  OBVIOUS
<1> QED
  BY <1>2, <1>4, <1>6, <1>8, <1>9, <1>10, SaveConcludes

\* The confirmations of one operator.
LEMMA InvConfirm ==
  ASSUME IInv, NEW u \in User, Confirm(u)
  PROVE  IInv'
<1>1. CASE SaveProvider(u)
  BY <1>1, InvSaveProvider
<1>2. CASE ReplaceProviderToken(u)
  BY <1>2, InvReplaceProviderToken
<1>3. CASE ReplaceNodeSsh(u)
  BY <1>3, InvReplaceNodeSsh
<1>4. CASE SaveNode(u)
  BY <1>4, InvSaveNode
<1>5. CASE SaveNodeUntrusted(u)
  <2>1. Idle /\ wiz[u].stage = "node_confirm" /\ AskHostKey(u, "node_confirm")
    BY <1>5 DEF SaveNodeUntrusted, At
  <2>2. wiz[u].ssh # None /\ wiz[u].staged = None /\ wiz[u].about # "node"
    BY <2>1 DEF IInv, WizardsTyped, Collected
  <2> QED
    BY <2>1, <2>2, InvAskHostKey
<1>6. CASE BeginReplaceNodeToken(u)
  <2>1. /\ wiz[u].stage = "node_token" /\ wiz[u].about = "node" /\ wiz[u].staged \in files
        /\ busy' = [user |-> u, old |-> node.api]
        /\ UNCHANGED <<files, rows, keys, unsure, faults, wiz>>
    BY <1>6 DEF BeginReplaceNodeToken, At, About, registry
  <2>2. UNCHANGED <<provider, node, job, hostKey, LiveSecrets>>
    BY <2>1 DEF rows, keys, LiveSecrets
  <2>3. WizardsTyped' /\ RowsTyped' /\ KeysTyped' /\ SlotsApart'
        /\ LiveSecretsExist' /\ OnlyConfirmedKeysTrusted'
    BY <2>1, <2>2, KeysKept DEF IInv, WizardsTyped, RowsTyped, SlotsApart, LiveSecretsExist
  <2>4. \A v \in User : (RefsOf(wiz[v]))' = RefsOf(wiz[v])
    BY <2>1 DEF RefsOf
  <2>5. Apart'
    BY <2>1, <2>2, <2>4 DEF IInv, Apart
  <2>6. node.api \in Reference /\ files \subseteq Secret
    BY DEF IInv, RowsTyped
  <2>7. DeployedApart'
    BY <2>1, <2>2, <2>4, <2>6, RegistryAssumption DEF IInv, DeployedApart, LiveSecrets
  <2>8. Rotating'
    BY <2>1, <2>2, <2>6 DEF IInv, Rotating, SlotsApart, Idle
  <2> QED
    BY <2>3, <2>5, <2>7, <2>8 DEF IInv
<1> QED
  BY <1>1, <1>2, <1>3, <1>4, <1>5, <1>6 DEF Confirm

------------------------------------------------------------------------------
(* The rotation of a token, the worker, removal and restart.                *)

\* The wizards as they are, in the next state.
LEMMA WizardsKept ==
  ASSUME IInv, UNCHANGED wiz
  PROVE  \A u \in User : (RefsOf(wiz[u]))' = RefsOf(wiz[u])
BY DEF RefsOf

\* The node refuses the new token: nothing was changed.
LEMMA InvNodeTokenRefused ==
  ASSUME IInv, NodeTokenRefused
  PROVE  IInv'
<1>1. /\ busy' = [user |-> None, old |-> None]
      /\ UNCHANGED <<files, rows, keys, unsure, faults, wiz>>
      /\ UNCHANGED <<provider, node, job, hostKey, LiveSecrets>>
  BY DEF NodeTokenRefused, registry, rows, keys, LiveSecrets
<1>2. WizardsTyped' /\ RowsTyped' /\ KeysTyped' /\ SlotsApart'
      /\ LiveSecretsExist' /\ OnlyConfirmedKeysTrusted'
  BY <1>1, KeysKept DEF IInv, WizardsTyped, RowsTyped, SlotsApart, LiveSecretsExist
<1>3. Apart'
  BY <1>1, WizardsKept DEF IInv, Apart
<1>4. files \subseteq Secret
  BY DEF IInv, RowsTyped
<1>5. DeployedApart'
  BY <1>1, <1>4, WizardsKept, RegistryAssumption DEF IInv, DeployedApart
<1>6. Rotating'
  BY <1>1 DEF Rotating, Idle, Reference
<1> QED
  BY <1>2, <1>3, <1>5, <1>6 DEF IInv

\* The rotated token is stored; the one that was read at the start goes.
LEMMA InvReplaceNodeToken ==
  ASSUME IInv, ReplaceNodeToken
  PROVE  IInv'
<1> DEFINE u == busy.user
           new == wiz[u].staged
           old == busy.old
<1>1. /\ ~Idle /\ busy' = [user |-> None, old |-> None] /\ node.there
      /\ node' = [node EXCEPT !.api = new] /\ UNCHANGED <<provider, job, keys>>
      /\ \/ /\ wiz' = [wiz EXCEPT ![u] = NoWizard] /\ files' = files \ ({old} \ {new})
            /\ UNCHANGED <<unsure, faults>>
         \/ Fault /\ unsure' = unsure \cup {new} /\ UNCHANGED <<wiz, files>>
  BY DEF ReplaceNodeToken, SetNodeToken
<1>2. /\ WizardsTyped /\ RowsTyped /\ KeysTyped /\ Apart /\ SlotsApart /\ DeployedApart
      /\ Rotating /\ LiveSecretsExist
  BY DEF IInv
<1>3. /\ u \in User /\ new \in files /\ new \in Secret /\ new # None /\ new \in RefsOf(wiz[u])
      /\ old # None /\ old \in {provider, node.ssh} => old \in unsure
  BY <1>1, <1>2, RegistryAssumption DEF Rotating, RowsTyped, RefsOf
<1>4. /\ node' \in [there : BOOLEAN, api : Reference, ssh : Reference]
      /\ node'.there /\ node'.api = new /\ node'.ssh = node.ssh
      /\ LiveSecrets' = {provider, new, node.ssh} \ {None}
      /\ LiveSecrets' \subseteq LiveSecrets \cup {new}
  BY <1>1, <1>2, <1>3 DEF RowsTyped, Reference, LiveSecrets
<1>5. /\ unsure \subseteq unsure' /\ unsure' \subseteq Secret /\ faults' \in 0..MaxFaults
      /\ files' \subseteq Secret
      /\ files' = files \/ files' = files \ ({old} \ {new})
  BY <1>1, <1>2, <1>3, RegistryAssumption DEF Fault, RowsTyped
<1>6. /\ hostKey \in Nat /\ hostKey' = hostKey
      /\ NoWizard \in WizardRow /\ RefsOf(NoWizard) = {} /\ Collected(NoWizard, hostKey)
  BY <1>1, <1>2, Empty, RegistryAssumption DEF KeysTyped, keys
<1>7. /\ wiz' \in [User -> WizardRow]
      /\ \A v \in User : wiz'[v] = wiz[v] \/ wiz'[v] = NoWizard
      /\ \A v \in User \ {u} : wiz'[v] = wiz[v]
      /\ wiz'[u] = NoWizard \/ new \in unsure'
  BY <1>1, <1>2, <1>3, <1>6 DEF WizardsTyped
<1>8. \A v \in User : (RefsOf(wiz[v]))' = RefsOf(wiz'[v])
                      /\ RefsOf(wiz'[v]) \subseteq RefsOf(wiz[v])
  BY <1>6, <1>7 DEF RefsOf
<1>9. WizardsTyped'
  BY <1>2, <1>6, <1>7 DEF WizardsTyped
<1>10. RowsTyped'
  BY <1>1, <1>2, <1>4, <1>5 DEF RowsTyped
<1>11. KeysTyped' /\ OnlyConfirmedKeysTrusted'
  BY <1>1, KeysKept
<1>12. \A v \in User \ {u} : new \notin RefsOf(wiz[v])
  BY <1>2, <1>3 DEF Apart
<1>13. Apart'
  <2>1. \A v \in User : RefsOf(wiz'[v]) \cap LiveSecrets' \subseteq unsure'
    BY <1>2, <1>4, <1>5, <1>6, <1>7, <1>8, <1>12 DEF Apart
  <2> QED
    BY <1>2, <1>8, <2>1 DEF Apart
<1>14. SlotsApart'
  <2>1. new \in LiveSecrets => new \in unsure
    BY <1>2, <1>3 DEF Apart
  <2> QED
    BY <1>1, <1>2, <1>4, <1>5, <2>1 DEF SlotsApart, LiveSecrets
<1>15. DeployedApart'
  <2>1. ASSUME job.st = "deployed"
        PROVE  /\ job.ref \in files' /\ job.ref \notin LiveSecrets' /\ job.ref # None
               /\ \A v \in User : job.ref \notin RefsOf(wiz'[v])
    <3>1. job.ref \notin LiveSecrets \cup {old} /\ job.ref # new /\ job.ref # None
      BY <1>2, <1>3, <2>1, RegistryAssumption DEF DeployedApart, RowsTyped
    <3> QED
      BY <1>2, <1>4, <1>5, <1>8, <2>1, <3>1 DEF DeployedApart
  <2> QED
    BY <1>1, <1>8, <2>1 DEF DeployedApart
<1>16. Rotating'
  BY <1>1 DEF Rotating, Idle, Reference
<1>17. LiveSecretsExist'
  BY <1>2, <1>3, <1>4, <1>5, <1>1 DEF LiveSecretsExist, LiveSecrets
<1> QED
  BY <1>9, <1>10, <1>11, <1>13, <1>14, <1>15, <1>16, <1>17 DEF IInv

\* The worker's steps, and a server that answers with another host key.
LEMMA InvOutside ==
  ASSUME IInv, Worker \/ Rekey, UNCHANGED <<wiz, busy>>
  PROVE  IInv'
<1>0. /\ WizardsTyped /\ RowsTyped /\ KeysTyped /\ Apart /\ SlotsApart /\ DeployedApart
      /\ Rotating /\ LiveSecretsExist /\ OnlyConfirmedKeysTrusted
  BY DEF IInv
<1>1. CASE StartJob \/ FailJob
  <2>1. /\ UNCHANGED <<files, provider, node, keys, unsure, faults, wiz, busy, LiveSecrets>>
        /\ job'.ref = job.ref /\ job'.st \in {"running", "ended"} /\ node.there
        /\ job' \in [st : {"none", "running", "deployed", "ended"}, ref : Reference]
        /\ job'.st = "running" => job.ref = None /\ hostKey' = hostKey
    BY <1>0, <1>1 DEF StartJob, FailJob, RowsTyped, keys, LiveSecrets
  <2>2. RowsTyped' /\ KeysTyped' /\ OnlyConfirmedKeysTrusted'
    BY <1>0, <2>1, KeysKept DEF RowsTyped
  <2>3. WizardsTyped' /\ SlotsApart' /\ LiveSecretsExist' /\ DeployedApart'
    BY <1>0, <2>1 DEF WizardsTyped, SlotsApart, LiveSecretsExist, DeployedApart, keys
  <2>4. Apart' /\ Rotating'
    BY <1>0, <2>1, WizardsKept DEF Apart, Rotating, Idle
  <2> QED
    BY <2>2, <2>3, <2>4 DEF IInv
<1>2. CASE FinishJob
  <2>1. /\ UNCHANGED <<files, provider, keys, unsure, faults, wiz, busy>>
        /\ job.st = "deployed" /\ job'.st = "ended" /\ job'.ref = job.ref
        /\ job' \in [st : {"none", "running", "deployed", "ended"}, ref : Reference]
        /\ node' \in [there : BOOLEAN, api : Reference, ssh : Reference]
        /\ node'.there /\ node'.ssh = node.ssh /\ node'.api = job.ref /\ node.there
    BY <1>0, <1>2 DEF FinishJob, RowsTyped
  <2>2. LiveSecrets' \subseteq LiveSecrets \cup {job.ref} /\ hostKey' = hostKey
    BY <2>1 DEF LiveSecrets, keys
  <2>3. RowsTyped' /\ KeysTyped' /\ OnlyConfirmedKeysTrusted'
    BY <1>0, <2>1, KeysKept DEF RowsTyped
  <2>4. /\ job.ref \in files /\ job.ref \notin LiveSecrets
        /\ \A u \in User : job.ref \notin RefsOf(wiz[u])
    BY <1>0, <2>1 DEF DeployedApart
  <2>5. WizardsTyped' /\ DeployedApart' /\ LiveSecretsExist'
    BY <1>0, <2>1, <2>2, <2>4 DEF WizardsTyped, LiveSecretsExist, DeployedApart
  <2>6. SlotsApart'
    BY <1>0, <2>1, <2>4 DEF SlotsApart, LiveSecrets
  <2>7. Apart'
    BY <1>0, <2>1, <2>2, <2>4, WizardsKept DEF Apart
  <2>8. Rotating'
    BY <1>0, <2>1 DEF Rotating, Idle
  <2> QED
    BY <2>3, <2>5, <2>6, <2>7, <2>8 DEF IInv
<1>3. ASSUME NEW ref \in Free, StoreDeployment(ref)
      PROVE  IInv'
  <2>1. /\ UNCHANGED <<provider, node, keys, faults, wiz, busy, LiveSecrets>>
        /\ job.st = "running" /\ job' = [st |-> "deployed", ref |-> ref]
        /\ files' = files \cup {ref} /\ unsure' = unsure \ {ref} /\ hostKey' = hostKey
    BY <1>3 DEF StoreDeployment, LiveSecrets, keys
  <2>2. /\ ref \in Secret /\ ref # None /\ ref \notin LiveSecrets /\ ref # busy.old
        /\ \A u \in User : ref \notin RefsOf(wiz[u])
    BY FreeIsUnused
  <2>3. RowsTyped' /\ KeysTyped' /\ OnlyConfirmedKeysTrusted'
    BY <1>0, <2>1, <2>2, KeysKept DEF RowsTyped, Reference
  <2>4. WizardsTyped' /\ LiveSecretsExist'
    BY <1>0, <2>1, <2>2 DEF WizardsTyped, LiveSecretsExist
  <2>5. SlotsApart'
    BY <1>0, <2>1, <2>2 DEF SlotsApart, LiveSecrets
  <2>6. DeployedApart'
    BY <2>1, <2>2, WizardsKept DEF DeployedApart
  <2>7. Apart'
    BY <1>0, <2>1, <2>2, WizardsKept DEF Apart
  <2>8. Rotating'
    BY <1>0, <2>1, <2>2 DEF Rotating, Idle
  <2> QED
    BY <2>3, <2>4, <2>5, <2>6, <2>7, <2>8 DEF IInv
<1>4. CASE Rekey
  <2>1. /\ UNCHANGED <<files, provider, node, job, unsure, faults, wiz, busy, LiveSecrets>>
        /\ hostKey' = hostKey + 1 /\ hostKey < MaxKeys /\ UNCHANGED <<trusted, confirmed>>
    BY <1>4 DEF Rekey, rows, LiveSecrets
  <2>2. KeysTyped' /\ OnlyConfirmedKeysTrusted'
    BY <1>0, <2>1, RegistryAssumption DEF KeysTyped, OnlyConfirmedKeysTrusted
  <2>3. WizardsTyped'
    <3>1. ASSUME NEW u \in User PROVE Collected(wiz[u], hostKey + 1)
      <4>1. wiz[u].shown \in Nat /\ hostKey \in Nat /\ Collected(wiz[u], hostKey)
        BY <1>0, RegistryAssumption DEF WizardsTyped, WizardRow, KeysTyped
      <4> QED
        BY <4>1 DEF Collected
    <3> QED
      BY <1>0, <2>1, <3>1 DEF WizardsTyped
  <2>4. RowsTyped' /\ SlotsApart' /\ LiveSecretsExist' /\ DeployedApart'
    BY <1>0, <2>1 DEF RowsTyped, SlotsApart, LiveSecretsExist, DeployedApart
  <2>5. Apart' /\ Rotating'
    BY <1>0, <2>1, WizardsKept DEF Apart, Rotating, Idle
  <2> QED
    BY <2>2, <2>3, <2>4, <2>5 DEF IInv
<1> QED
  BY <1>1, <1>2, <1>3, <1>4 DEF Worker

\* Forgetting what a wizard is about leaves what it holds.
LEMMA Forgotten ==
  ASSUME IInv, NEW u \in User
  PROVE  LET w == [wiz[u] EXCEPT !.about = "gone"] IN
           w \in WizardRow /\ Collected(w, hostKey) /\ RefsOf(w) = RefsOf(wiz[u])
<1> DEFINE w == [wiz[u] EXCEPT !.about = "gone"]
<1>1. wiz[u] \in WizardRow /\ Collected(wiz[u], hostKey)
  BY DEF IInv, WizardsTyped
<1>2. /\ w \in WizardRow /\ w.stage = wiz[u].stage /\ w.shown = wiz[u].shown
      /\ w.staged = wiz[u].staged /\ w.api = wiz[u].api /\ w.ssh = wiz[u].ssh
      /\ w.resume = wiz[u].resume /\ w.about = "gone"
  BY <1>1 DEF WizardRow
<1>3. RefsOf(w) = RefsOf(wiz[u])
  BY <1>2 DEF RefsOf
<1>4. Collected(w, hostKey)
  BY <1>1, <1>2, <1>3, WizardsAssumption DEF Collected
<1> QED
  BY <1>2, <1>3, <1>4

\* Rows are deleted while no job is open, then their files.
LEMMA InvRemoval ==
  ASSUME IInv, ProviderRemoved \/ NodeRemoved
  PROVE  IInv'
<1>0. /\ WizardsTyped /\ RowsTyped /\ Apart /\ SlotsApart /\ Rotating /\ LiveSecretsExist
  BY DEF IInv
<1>1. PICK refs \in {{provider}, {node.api, node.ssh}},
           abouts \in SUBSET {"provider", "owner", "node"} :
        /\ Idle /\ UNCHANGED <<busy, keys, unsure, job>>
        /\ \E tails : Discard(refs) \/ DiscardFails(refs, tails)
        /\ wiz' = [u \in User |-> IF wiz[u].about \in abouts
                                   THEN [wiz[u] EXCEPT !.about = "gone"] ELSE wiz[u]]
        /\ \/ /\ refs = {provider} /\ ~node.there /\ provider' = None /\ node' = node
           \/ /\ refs = {node.api, node.ssh} /\ job.st = "none" /\ node' = NoNode
              /\ provider' = provider
  BY DEF ProviderRemoved, NodeRemoved, RemoveProvider, RemoveNode, Forget
<1>2. /\ job.st = "none" /\ job' = job /\ provider' \in Reference
      /\ node' \in [there : BOOLEAN, api : Reference, ssh : Reference]
      /\ ~node'.there /\ node'.api = None /\ node'.ssh = None
  <2>1. CASE ~node.there /\ provider' = None /\ node' = node
    BY <1>0, <1>1, <2>1 DEF RowsTyped, Reference
  <2>2. CASE job.st = "none" /\ node' = NoNode /\ provider' = provider
    BY <1>0, <1>1, <2>2 DEF RowsTyped, NoNode, Reference
  <2> QED
    BY <1>1, <2>1, <2>2
<1>3. /\ LiveSecrets' \subseteq LiveSecrets /\ refs \cap LiveSecrets' \subseteq unsure
  BY <1>0, <1>1, <1>2 DEF LiveSecrets, SlotsApart, RowsTyped
<1>4. /\ files' \subseteq files /\ files \ refs \subseteq files'
      /\ files' \subseteq Secret /\ faults' \in 0..MaxFaults
  BY <1>1, OnlyDiscarded
<1>5. wiz' \in [User -> WizardRow] /\ \A u \in User : Collected(wiz'[u], hostKey)
  BY <1>0, <1>1, Forgotten DEF WizardsTyped
<1>6. \A u \in User : (RefsOf(wiz[u]))' = RefsOf(wiz[u])
  <2>1. \A u \in User : RefsOf(wiz'[u]) = RefsOf(wiz[u])
    BY <1>1, Forgotten
  <2>2. \A u \in User : (RefsOf(wiz[u]))' = RefsOf(wiz'[u])
    BY DEF RefsOf
  <2> QED
    BY <2>1, <2>2
<1>7. KeysTyped' /\ OnlyConfirmedKeysTrusted' /\ hostKey' = hostKey
  BY <1>1, KeysKept DEF keys
<1>8. WizardsTyped'
  BY <1>5, <1>7 DEF WizardsTyped
<1>9. RowsTyped'
  BY <1>0, <1>1, <1>2, <1>4 DEF RowsTyped
<1>10. Apart'
  BY <1>0, <1>1, <1>3, <1>6 DEF Apart
<1>11. SlotsApart' /\ DeployedApart'
  BY <1>2 DEF SlotsApart, DeployedApart
<1>12. Rotating'
  BY <1>0, <1>1 DEF Rotating, Idle
<1>13. LiveSecretsExist'
  BY <1>0, <1>1, <1>3, <1>4 DEF LiveSecretsExist
<1> QED
  BY <1>7, <1>8, <1>9, <1>10, <1>11, <1>12, <1>13 DEF IInv

\* A restart loses the wizards and the rotation in progress, not their files.
LEMMA InvRestart ==
  ASSUME IInv, Restart
  PROVE  IInv'
<1>0. /\ RowsTyped /\ KeysTyped /\ SlotsApart /\ DeployedApart /\ LiveSecretsExist
  BY DEF IInv
<1>1. /\ wiz' = [u \in User |-> NoWizard] /\ busy' = [user |-> None, old |-> None]
      /\ UNCHANGED <<files, provider, node, job, keys, unsure, LiveSecrets>>
      /\ hostKey' = hostKey /\ faults' \in 0..MaxFaults
  BY <1>0, RegistryAssumption DEF Restart, rows, keys, Fault, RowsTyped, LiveSecrets
<1>2. WizardsTyped'
  <2>1. hostKey \in Nat
    BY <1>0, RegistryAssumption DEF KeysTyped
  <2> QED
    BY <1>1, <2>1, Empty DEF WizardsTyped
<1>3. \A u \in User : (RefsOf(wiz[u]))' = {}
  BY <1>1 DEF RefsOf, NoWizard
<1>4. RowsTyped' /\ SlotsApart' /\ LiveSecretsExist' /\ Apart'
  BY <1>0, <1>1, <1>3 DEF RowsTyped, SlotsApart, LiveSecretsExist, Apart
<1>5. KeysTyped' /\ OnlyConfirmedKeysTrusted'
  BY <1>1, KeysKept
<1>6. DeployedApart'
  BY <1>0, <1>1, <1>3, RegistryAssumption DEF RowsTyped, DeployedApart
<1>7. Rotating'
  BY <1>1 DEF Rotating, Idle, Reference
<1> QED
  BY <1>2, <1>4, <1>5, <1>6, <1>7 DEF IInv

\* A step that changes nothing.
LEMMA InvStutter ==
  ASSUME IInv, UNCHANGED vars
  PROVE  IInv'
<1>0. /\ WizardsTyped /\ RowsTyped /\ KeysTyped /\ Apart /\ SlotsApart /\ DeployedApart
      /\ Rotating /\ LiveSecretsExist
  BY DEF IInv
<1>1. UNCHANGED <<files, provider, node, job, hostKey, keys, unsure, faults, wiz, busy,
                  LiveSecrets>>
  BY DEF vars, registry, rows, keys, LiveSecrets
<1>2. WizardsTyped' /\ RowsTyped' /\ SlotsApart' /\ LiveSecretsExist'
  BY <1>0, <1>1 DEF WizardsTyped, RowsTyped, SlotsApart, LiveSecretsExist
<1>3. Apart' /\ DeployedApart' /\ Rotating'
  BY <1>0, <1>1, WizardsKept DEF Apart, DeployedApart, Rotating, Idle
<1>4. KeysTyped' /\ OnlyConfirmedKeysTrusted'
  BY <1>1, KeysKept
<1> QED
  BY <1>2, <1>3, <1>4 DEF IInv

\* The questions and answers of one operator.
LEMMA InvReply ==
  ASSUME IInv, NEW u \in User, Reply(u)
  PROVE  IInv'
BY InvNotes, InvTokens, InvConfirmHostKey, InvSshSecrets DEF Reply

------------------------------------------------------------------------------
(* Secrets left behind.                                                     *)

\* A wizard moves on: what it drops is referenced or has lost its file, and so
\* is what the rows drop.
LEMMA NothingLeaks ==
  ASSUME IInv, NEW u \in User, NEW w, wiz' = [wiz EXCEPT ![u] = w],
         files' \subseteq files \cup RefsOf(w) \cup Referenced',
         RefsOf(wiz[u]) \cap files' \subseteq RefsOf(w) \cup Referenced',
         Referenced \cap files' \subseteq RefsOf(w) \cup Referenced'
  PROVE  Orphans' \subseteq Orphans
<1>1. wiz'[u] = w /\ \A v \in User \ {u} : wiz'[v] = wiz[v]
  BY DEF IInv, WizardsTyped
<1>2. \A v \in User : (RefsOf(wiz[v]))' = RefsOf(wiz'[v])
  BY DEF RefsOf
<1>3. RefsOf(w) \subseteq Held'
  BY <1>1, <1>2 DEF Held
<1>4. Held \subseteq Held' \cup RefsOf(wiz[u])
  BY <1>1, <1>2 DEF Held
<1> QED
  BY <1>3, <1>4 DEF Orphans

\* The wizards stay, or only forget what they are about.
LEMMA RowsLeak ==
  ASSUME IInv, \A u \in User : RefsOf(wiz'[u]) = RefsOf(wiz[u]),
         files' \subseteq files \cup Referenced', Referenced \cap files' \subseteq Referenced'
  PROVE  Orphans' \subseteq Orphans
<1>1. \A v \in User : (RefsOf(wiz[v]))' = RefsOf(wiz'[v])
  BY DEF RefsOf
<1>2. Held' = Held
  BY <1>1 DEF Held
<1> QED
  BY <1>2 DEF Orphans

\* A wizard goes on with what it holds, and the rows and files stay.
LEMMA StageLeak ==
  ASSUME IInv, NEW u \in User, NEW w, Show(u, w), UNCHANGED <<files, rows>>,
         RefsOf(w) = RefsOf(wiz[u])
  PROVE  Orphans' \subseteq Orphans
<1>1. Referenced' = Referenced /\ wiz' = [wiz EXCEPT ![u] = w] /\ files' = files
  BY DEF rows, Referenced, LiveSecrets, Show
<1> QED
  BY <1>1, NothingLeaks

\* A misfortune is counted.
LEMMA FaultCounts ==
  ASSUME IInv, Fault
  PROVE  faults' # faults
BY DEF Fault, IInv, RowsTyped

\* Cancel deletes the files of all that the wizard holds, unless a disk error
\* stops it.
LEMMA LeaveLeaks ==
  ASSUME IInv, NEW u \in User, NEW w, Leave(u, w)
  PROVE  Orphans' \subseteq Orphans \/ faults' # faults
<1>1. CASE ~Fault
  <2>1. /\ Referenced' = Referenced /\ wiz' = [wiz EXCEPT ![u] = w]
        /\ files' = files \ RefsOf(wiz[u])
    BY <1>1 DEF Leave, Discard, DiscardFails, Show, rows, Referenced, LiveSecrets
  <2> QED
    BY <2>1, NothingLeaks
<1> QED
  BY <1>1, FaultCounts

\* A new file, which the wizard holds together with what it held.
LEMMA FileLeak ==
  ASSUME IInv, NEW u \in User, NEW w, NEW ref, Staged(ref), Show(u, w),
         RefsOf(w) = RefsOf(wiz[u]) \cup {ref}
  PROVE  Orphans' \subseteq Orphans
<1>1. Referenced' = Referenced /\ wiz' = [wiz EXCEPT ![u] = w] /\ files' = files \cup {ref}
  BY DEF Staged, Show, rows, Referenced, LiveSecrets
<1> QED
  BY <1>1, NothingLeaks

\* A reply keeps what the wizard holds, unless a second secret is staged.
LEMMA ReplyLeaks ==
  ASSUME IInv, NEW u \in User, Reply(u)
  PROVE  Orphans' \subseteq Orphans \/ faults' # faults \/ Dropped
<1> DEFINE w == wiz[u]
<1>1. w \in WizardRow /\ Collected(w, hostKey) /\ RefsOf(w) = {w.staged, w.api, w.ssh} \ {None}
  BY DEF IInv, WizardsTyped, RefsOf
<1>2. CASE SshEditAuth(u) \/ Discover(u)
  <2>1. PICK stage \in {"node_ssh_edit_port", "node_ssh_port", "node_api_token"} :
          Show(u, [w EXCEPT !.stage = stage]) /\ UNCHANGED <<files, rows>>
    BY <1>2 DEF SshEditAuth, Discover, Goto, registry
  <2>2. RefsOf([w EXCEPT !.stage = stage]) = RefsOf(w)
    BY <1>1 DEF WizardRow, RefsOf
  <2> QED
    BY <2>1, <2>2, StageLeak
<1>3. CASE Rename(u)
  <2>1. RefsOf(w) = {} /\ Show(u, NoWizard) /\ UNCHANGED <<files, rows>>
    BY <1>1, <1>3 DEF Rename, At, Collected, registry
  <2> QED
    BY <2>1, Empty, StageLeak
<1>4. ASSUME NEW resume \in {"node_ssh_secret", "node_ssh_edit_secret", "node_confirm"},
             AskHostKey(u, resume)
      PROVE  Orphans' \subseteq Orphans
  <2> DEFINE shown == [w EXCEPT !.stage = "ssh_host_key_confirm", !.shown = hostKey,
                                !.resume = resume]
  <2>1. RefsOf(shown) = RefsOf(w)
    BY <1>1 DEF WizardRow, RefsOf
  <2>2. Show(u, shown) /\ UNCHANGED <<files, rows>>
    BY <1>4 DEF AskHostKey, registry
  <2> QED
    BY <2>1, <2>2, StageLeak
<1>5. CASE SshPort(u)
  BY <1>4, <1>5 DEF SshPort
<1>6. CASE ConfirmHostKey(u)
  <2> DEFINE next == [w EXCEPT !.stage = w.resume, !.shown = 0, !.resume = None]
  <2>1. RefsOf(next) = RefsOf(w)
    BY <1>1 DEF WizardRow, RefsOf
  <2>2. Show(u, next) /\ UNCHANGED <<files, rows>>
    BY <1>6 DEF ConfirmHostKey, Trust
  <2> QED
    BY <2>1, <2>2, StageLeak
<1>7. CASE ProviderToken(u) \/ ProviderTokenReplace(u) \/ NodeTokenReplace(u)
  <2>1. RefsOf(w) = {}
    BY <1>1, <1>7 DEF ProviderToken, ProviderTokenReplace, NodeTokenReplace, At, About, Collected
  <2>2. PICK stage \in {"provider_confirm", "provider_token", "node_token"}, ref \in Secret :
             Staged(ref) /\ Show(u, [w EXCEPT !.staged = ref, !.stage = stage])
    BY <1>7 DEF ProviderToken, ProviderTokenReplace, NodeTokenReplace
  <2>3. RefsOf([w EXCEPT !.staged = ref, !.stage = stage]) = {ref}
    BY <1>1, <2>1, RegistryAssumption DEF WizardRow, RefsOf
  <2> QED
    BY <2>1, <2>2, <2>3, FileLeak
<1>8. CASE NodeApiToken(u)
  <2>1. RefsOf(w) = {}
    BY <1>1, <1>8 DEF NodeApiToken, At, About, Collected
  <2>2. ASSUME NEW ref \in Secret, Staged(ref),
               Show(u, [w EXCEPT !.api = ref, !.stage = "node_ssh_port"])
        PROVE  Orphans' \subseteq Orphans
    <3>1. RefsOf([w EXCEPT !.api = ref, !.stage = "node_ssh_port"]) = {ref}
      BY <1>1, <2>1, RegistryAssumption DEF WizardRow, RefsOf
    <3> QED
      BY <2>1, <2>2, <3>1, FileLeak
  <2>3. CASE Fault
    BY <2>3 DEF Fault, IInv, RowsTyped
  <2> QED
    BY <1>8, <2>2, <2>3 DEF NodeApiToken
<1>9. CASE SshSecret(u)
  <2>1. ASSUME NEW ref \in Secret, Staged(ref), At(u, "node_ssh_secret"),
               Show(u, [w EXCEPT !.ssh = ref, !.stage = "node_confirm"])
        PROVE  Orphans' \subseteq Orphans
    <3>1. w.ssh = None
      BY <1>1, <2>1 DEF At, Collected
    <3>2. RefsOf([w EXCEPT !.ssh = ref, !.stage = "node_confirm"]) = RefsOf(w) \cup {ref}
      BY <1>1, <3>1, RegistryAssumption DEF WizardRow, RefsOf
    <3> QED
      BY <2>1, <3>2, FileLeak
  <2> QED
    BY <1>4, <1>9, <2>1 DEF SshSecret
<1>10. CASE SshEditSecret(u)
  <2>1. ASSUME NEW ref \in Secret, Staged(ref), w.staged = None,
               Show(u, [w EXCEPT !.staged = ref, !.stage = "node_ssh"])
        PROVE  Orphans' \subseteq Orphans
    <3>1. RefsOf([w EXCEPT !.staged = ref, !.stage = "node_ssh"]) = RefsOf(w) \cup {ref}
      BY <1>1, <2>1, RegistryAssumption DEF WizardRow, RefsOf
    <3> QED
      BY <2>1, <3>1, FileLeak
  <2>2. CASE w.staged # None
    BY <1>10, <2>2 DEF Dropped
  <2>3. CASE w.staged = None
    BY <1>4, <1>10, <2>1, <2>3 DEF SshEditSecret
  <2> QED
    BY <2>2, <2>3
<1> QED
  BY <1>2, <1>3, <1>5, <1>6, <1>7, <1>8, <1>9, <1>10 DEF Reply

\* Only a button that replaces the wizard drops what it holds.
LEMMA SteerLeaks ==
  ASSUME IInv, NEW u \in User, Steer(u)
  PROVE  Orphans' \subseteq Orphans \/ faults' # faults \/ Dropped
<1>1. CASE Overwrite(u)
  BY <1>1 DEF Dropped
<1>2. CASE Cancel(u) \/ StartProviderAdd(u) \/ StartNodeAdd(u)
  BY <1>2, LeaveLeaks DEF Cancel, StartProviderAdd, StartNodeAdd
<1> QED
  BY <1>1, <1>2 DEF Steer

\* A save that succeeds puts the staged secret, all that its wizard holds, in
\* the rows, and deletes the file it supersedes.
LEMMA SaveLeaks ==
  ASSUME IInv, NEW u \in User, NEW old, Conclude(u, {wiz[u].staged}, old),
         wiz[u].staged \in files, wiz[u].staged \in Referenced',
         Referenced \subseteq Referenced' \cup old
  PROVE  Orphans' \subseteq Orphans \/ faults' # faults
<1>1. CASE Fault
  BY <1>1 DEF Fault, IInv, RowsTyped
<1>2. CASE Show(u, NoWizard) /\ files' = files \ (old \ {wiz[u].staged})
  <2>1. wiz[u].staged # None
    BY RegistryAssumption DEF IInv, RowsTyped
  <2>2. RefsOf(wiz[u]) = {wiz[u].staged}
    BY <2>1 DEF IInv, WizardsTyped, Collected, RefsOf
  <2>3. wiz' = [wiz EXCEPT ![u] = NoWizard]
    BY <1>2 DEF Show
  <2> QED
    BY <1>2, <2>2, <2>3, Empty, NothingLeaks
<1> QED
  BY <1>1, <1>2 DEF Conclude

\* Confirmations; the refresh of a registered node drops its old references.
LEMMA ConfirmLeaks ==
  ASSUME IInv, NEW u \in User, Confirm(u)
  PROVE  Orphans' \subseteq Orphans \/ faults' # faults \/ Dropped
<1> DEFINE ref == wiz[u].staged
<1>1. CASE SaveProvider(u)
  <2>1. /\ Conclude(u, {ref}, {}) /\ provider = None /\ ref \in files /\ provider' = ref
        /\ UNCHANGED <<node, job>> /\ ref # None
    BY <1>1, RegistryAssumption DEF SaveProvider, InsertProvider, IInv, RowsTyped
  <2> QED
    BY <2>1, SaveLeaks DEF Referenced, LiveSecrets
<1>2. CASE ReplaceProviderToken(u)
  <2>1. /\ Conclude(u, {ref}, {provider}) /\ ref \in files /\ provider' = ref
        /\ UNCHANGED <<node, job>> /\ ref # None
    BY <1>2, RegistryAssumption DEF ReplaceProviderToken, SetProviderToken, IInv, RowsTyped
  <2> QED
    BY <2>1, SaveLeaks DEF Referenced, LiveSecrets
<1>3. CASE ReplaceNodeSsh(u)
  <2>1. /\ Conclude(u, {ref}, {node.ssh}) /\ ref \in files /\ ref # None
        /\ node'.ssh = ref /\ node'.api = node.api /\ UNCHANGED <<provider, job>>
    BY <1>3, RegistryAssumption DEF ReplaceNodeSsh, SetNodeSsh, IInv, RowsTyped
  <2> QED
    BY <2>1, SaveLeaks DEF Referenced, LiveSecrets
<1>4. CASE SaveNode(u)
  BY <1>4 DEF Dropped
<1>5. CASE SaveNodeUntrusted(u)
  <2> DEFINE shown == [wiz[u] EXCEPT !.stage = "ssh_host_key_confirm", !.shown = hostKey,
                                     !.resume = "node_confirm"]
  <2>1. RefsOf(shown) = RefsOf(wiz[u])
    BY DEF IInv, WizardsTyped, WizardRow, RefsOf
  <2>2. Show(u, shown) /\ UNCHANGED <<files, rows>>
    BY <1>5 DEF SaveNodeUntrusted, AskHostKey, registry
  <2> QED
    BY <2>1, <2>2, StageLeak
<1>6. CASE BeginReplaceNodeToken(u)
  <2>1. UNCHANGED <<files, Referenced, wiz>>
    BY <1>6 DEF BeginReplaceNodeToken, registry, rows, Referenced, LiveSecrets
  <2> QED
    BY <2>1, RowsLeak
<1> QED
  BY <1>1, <1>2, <1>3, <1>4, <1>5, <1>6 DEF Confirm

\* A rotated token, unless the row was changed while it was tried.
LEMMA RotationLeaks ==
  ASSUME IInv, ReplaceNodeToken
  PROVE  Orphans' \subseteq Orphans \/ faults' # faults \/ Dropped
<1> DEFINE u == busy.user
           new == wiz[u].staged
<1>1. CASE Fault
  BY <1>1 DEF Fault, IInv, RowsTyped
<1>2. CASE node.api # busy.old
  BY <1>2 DEF Dropped
<1>3. CASE ~Fault /\ node.api = busy.old
  <2>1. /\ ~Idle /\ node' = [node EXCEPT !.api = new] /\ UNCHANGED <<provider, job>>
        /\ wiz' = [wiz EXCEPT ![u] = NoWizard] /\ files' = files \ ({node.api} \ {new})
    BY <1>3 DEF ReplaceNodeToken, SetNodeToken
  <2>2. u \in User /\ new # None
    BY <2>1, RegistryAssumption DEF IInv, Rotating, RowsTyped
  <2>3. RefsOf(wiz[u]) = {new}
    BY <2>2 DEF IInv, WizardsTyped, Collected, RefsOf
  <2>4. node'.api = new /\ node'.ssh = node.ssh
    BY <2>1 DEF IInv, RowsTyped
  <2>5. new \in Referenced' /\ Referenced \subseteq Referenced' \cup {node.api}
    BY <2>1, <2>2, <2>4 DEF Referenced, LiveSecrets
  <2> QED
    BY <2>1, <2>2, <2>3, <2>5, Empty, NothingLeaks
<1> QED
  BY <1>1, <1>2, <1>3

\* Removal deletes the files of the rows it deletes, unless it fails half way.
LEMMA RemovalLeaks ==
  ASSUME IInv, ProviderRemoved \/ NodeRemoved
  PROVE  Orphans' \subseteq Orphans \/ faults' # faults
<1>1. CASE Fault
  BY <1>1, FaultCounts
<1>2. \A u \in User : RefsOf(wiz'[u]) = RefsOf(wiz[u])
  BY Forgotten DEF ProviderRemoved, NodeRemoved, Forget
<1>3. CASE ProviderRemoved /\ ~Fault
  <2>1. files' = files \ {provider} /\ Referenced \subseteq Referenced' \cup {provider}
    BY <1>3 DEF ProviderRemoved, RemoveProvider, Discard, DiscardFails, Referenced, LiveSecrets
  <2> QED
    BY <1>2, <2>1, RowsLeak
<1>4. CASE NodeRemoved /\ ~Fault
  <2>1. /\ files' = files \ {node.api, node.ssh}
        /\ Referenced \subseteq Referenced' \cup {node.api, node.ssh}
    BY <1>4 DEF NodeRemoved, RemoveNode, Discard, DiscardFails, Referenced, LiveSecrets
  <2> QED
    BY <1>2, <2>1, RowsLeak
<1> QED
  BY <1>1, <1>3, <1>4

\* A step that changes neither files, nor references, nor wizards.
LEMMA StillLeaks ==
  ASSUME IInv, UNCHANGED <<files, Referenced, wiz>>
  PROVE  Orphans' \subseteq Orphans
BY RowsLeak

\* The worker's steps: only the end of a job drops a reference.
LEMMA OutsideLeaks ==
  ASSUME IInv, Worker \/ Rekey, UNCHANGED wiz
  PROVE  Orphans' \subseteq Orphans \/ Dropped
<1>1. CASE StartJob \/ FailJob \/ Rekey
  <2>1. UNCHANGED <<files, Referenced, wiz>>
    BY <1>1 DEF StartJob, FailJob, Rekey, rows, Referenced, LiveSecrets, IInv, RowsTyped
  <2> QED
    BY <2>1, StillLeaks
<1>2. CASE FinishJob
  BY <1>2 DEF Dropped
<1>3. ASSUME NEW ref \in Free, StoreDeployment(ref)
      PROVE  Orphans' \subseteq Orphans
  <2>1. /\ files' = files \cup {ref} /\ job'.ref = ref /\ UNCHANGED <<provider, node>>
        /\ job.ref = None /\ ref # None
    BY <1>3, FreeIsUnused DEF StoreDeployment, IInv, RowsTyped
  <2> QED
    BY <2>1, RowsLeak DEF Referenced, LiveSecrets
<1> QED
  BY <1>1, <1>2, <1>3 DEF Worker

------------------------------------------------------------------------------
(* Theorems.                                                                *)

\* Every step keeps the invariant.
LEMMA InvNext == IInv /\ [Next]_vars => IInv'
<1> SUFFICES ASSUME IInv, [Next]_vars PROVE IInv'
  OBVIOUS
<1>1. ASSUME NEW u \in User, Steer(u) \/ Reply(u) \/ Confirm(u) PROVE IInv'
  BY <1>1, InvSteer, InvReply, InvConfirm
<1>2. CASE NodeTokenRefused \/ ReplaceNodeToken
  BY <1>2, InvNodeTokenRefused, InvReplaceNodeToken
<1>3. CASE ProviderRemoved \/ NodeRemoved
  BY <1>3, InvRemoval
<1>4. CASE (Worker \/ Rekey) /\ UNCHANGED <<wiz, busy>>
  BY <1>4, InvOutside
<1>5. CASE Restart
  BY <1>5, InvRestart
<1>6. CASE UNCHANGED vars
  BY <1>6, InvStutter
<1> QED
  BY <1>1, <1>2, <1>3, <1>4, <1>5, <1>6 DEF Next

\* The invariant holds in every reachable state.
THEOREM Invariance == Spec => []IInv
<1> QED
  BY InitInv, InvNext, PTL DEF Spec

\* The registry and its wizards are well typed, and each stage is reached with
\* what it needs (app/bot/registry_ui.py).
THEOREM TypeCorrect == Spec => []TypeOK
<1>1. IInv => TypeOK
  <2> SUFFICES ASSUME IInv PROVE TypeOK
    OBVIOUS
  <2>1. ASSUME NEW u \in User
        PROVE  /\ RefsOf(wiz[u]) \subseteq Secret /\ wiz[u].shown \in 0..hostKey
               /\ Collected(wiz[u], hostKey)
    <3>1. /\ wiz[u] \in WizardRow /\ Collected(wiz[u], hostKey) /\ wiz[u].shown \in Nat
          /\ hostKey \in Nat
      BY RegistryAssumption DEF IInv, WizardsTyped, WizardRow, KeysTyped
    <3> QED
      BY <3>1, Fields DEF Collected
  <2>2. RowsTyped /\ KeysTyped
    BY DEF IInv
  <2> QED
    BY <2>1, <2>2 DEF TypeOK, RowsTyped, KeysTyped, Collected
<1> QED
  BY <1>1, Invariance, PTL

\* A credential the registry refers to can be read, except one whose save
\* failed after its commit (app/registry/management.py).
THEOREM CredentialsReadable == Spec => []LiveSecretsExist
<1>1. IInv => LiveSecretsExist
  BY DEF IInv
<1> QED
  BY <1>1, Invariance, PTL

\* known_hosts holds only keys that an operator confirmed (README.md:179).
THEOREM OnlySeenKeys == Spec => []OnlyConfirmedKeysTrusted
<1>1. IInv => OnlyConfirmedKeysTrusted
  BY DEF IInv
<1> QED
  BY <1>1, Invariance, PTL

\* No step leaves a secret file behind but those that are known to
\* (docs/TELEGRAM.md:59).
THEOREM NothingElseLeaks == Spec => NoOtherLeak
<1>1. ASSUME IInv, [Next]_vars
      PROVE  Orphans' \subseteq Orphans \/ faults' # faults \/ Dropped
  <2>1. ASSUME NEW u \in User, Steer(u) \/ Reply(u) \/ Confirm(u)
        PROVE  Orphans' \subseteq Orphans \/ faults' # faults \/ Dropped
    BY <1>1, <2>1, SteerLeaks, ReplyLeaks, ConfirmLeaks
  <2>2. CASE ReplaceNodeToken
    BY <1>1, <2>2, RotationLeaks
  <2>3. CASE ProviderRemoved \/ NodeRemoved
    BY <1>1, <2>3, RemovalLeaks
  <2>4. CASE (Worker \/ Rekey) /\ UNCHANGED <<wiz, busy>>
    BY <1>1, <2>4, OutsideLeaks
  <2>5. CASE Restart
    BY <1>1, <2>5, FaultCounts DEF Restart
  <2>6. CASE NodeTokenRefused
    <3>1. UNCHANGED <<files, Referenced, wiz>>
      BY <2>6 DEF NodeTokenRefused, registry, rows, Referenced, LiveSecrets
    <3> QED
      BY <1>1, <3>1, StillLeaks
  <2>7. CASE UNCHANGED vars
    <3>1. UNCHANGED <<files, Referenced, wiz>>
      BY <2>7 DEF vars, registry, rows, Referenced, LiveSecrets
    <3> QED
      BY <1>1, <3>1, StillLeaks
  <2>8. CASE Next
    BY <2>1, <2>2, <2>3, <2>4, <2>5, <2>6, <2>8 DEF Next
  <2> QED
    BY <1>1, <2>7, <2>8
<1> QED
  BY <1>1, Invariance, PTL DEF Spec, NoOtherLeak
=============================================================================
