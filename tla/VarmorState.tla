----------------------------- MODULE VarmorState -----------------------------
(***************************************************************************)
(* State shared by the components of the policy reconciliation and status  *)
(* pipeline: the API objects (VarmorClusterPolicy, ArmorProfile), the      *)
(* command channels of the StatusManager, the UpdateDesiredNumber flag the *)
(* controller raises, and the agents on the nodes.                         *)
(***************************************************************************)
EXTENDS Enforcers, Naturals, Sequences, FiniteSets

CONSTANTS
    Keys,            \* VarmorClusterPolicy names (status keys)
    Nodes,           \* nodes that may run an agent
    Targets,         \* target workloads
    Modes,           \* policy modes
    UserSpecs,       \* the policy specs users write (a set of PolicySpec)
    ResetCap,        \* capacity of ResetCh        (50 in NewStatusManager)
    DeleteCap,       \* capacity of DeleteCh       (50)
    UpdateStatusCap, \* capacity of UpdateStatusCh (100)
    MaxVersion,      \* bound on ArmorProfile versions per key
    MaxUid,          \* bound on policy incarnations (creations) overall
    ApiFailures,     \* whether calls to the API server may fail transiently
    None             \* model value: no object / no entry

\* A policy spec.  wellFormed abstracts the content checks of ignoreAdd and
\* ignoreUpdate that do not depend on the previous state (target kind, name
\* xor selector, enhanceProtect / modelingOptions present, name length).
PolicySpec == [target: Targets, enforcer: EnforcerTypes, mode: Modes,
               wellFormed: BOOLEAN]

ASSUME UserSpecs \subseteq PolicySpec

Uids == 1..MaxUid
Versions == 1..MaxVersion

Phases == {"", "Pending", "Protecting", "Modeling", "Completed", "Error"}

\* The phase argument that leaves the phase alone (VarmorPolicyUnchanged).
Unchanged == "Unchanged"

\* Profile payload: which template GenerateProfile filled in.
Contents == {"AlwaysAllow", "RuntimeDefault", "EnhanceProtect",
             "BehaviorModeling", "DefenseInDepth"}

Profile == [enforcer: EnforcerTypes, mode: {"enforce", "complain"},
            content: Contents]

ApSpec == [profile: Profile, target: Targets, bmEnable: BOOLEAN]

\* A VarmorClusterPolicy object: spec and status.
PolicyObject == [uid: Uids, spec: PolicySpec, phase: Phases, ready: BOOLEAN]

\* An ArmorProfile object.  failing is the node set of its conditions,
\* version counts the changes of its spec (it distinguishes what agents
\* have loaded), owner is the uid of its ownerReference.
ApObject == [owner: Uids, finalizer: BOOLEAN, deleting: BOOLEAN,
             spec: ApSpec, version: Versions,
             current: Nat, desired: Nat, failing: SUBSET Nodes]

VARIABLES
    policy,          \* [Keys -> PolicyObject \cup {None}]
    ap,              \* [Keys -> ApObject \cup {None}]
    resetCh,         \* StatusManager.ResetCh
    deleteCh,        \* StatusManager.DeleteCh
    updateStatusCh,  \* StatusManager.UpdateStatusCh
    updateDesiredNumber, \* StatusManager.UpdateDesiredNumber
    scheduled,       \* nodes counted by the agent DaemonSet (desiredNumberScheduled)
    running,         \* nodes whose agent pod is Running
    loaded,          \* [Nodes -> [Keys -> 0..MaxVersion]]: version an agent loaded
    loadOk,          \* [Nodes -> [Keys -> BOOLEAN]]: whether that load succeeded
    reports,         \* [Nodes -> Seq(Report)]: each agent's reports, posted in order
    elapsed,         \* [Keys -> BOOLEAN]: modeling duration passed since AP creation
    lastVersion,     \* [Keys -> 0..MaxVersion]: last AP spec version handed out
    informerPending  \* keys with informer events for the controller not yet handled

sharedVars == <<policy, ap, resetCh, deleteCh, updateStatusCh,
                updateDesiredNumber, scheduled, running, loaded, loadOk,
                reports, elapsed, lastVersion, informerPending>>

\* The state the StatusManager never changes.
agentVars == <<scheduled, running, loaded, loadOk, elapsed, lastVersion,
               informerPending>>

\* The state the controller never changes.
nodeVars == <<scheduled, running, loaded, loadOk, reports>>

\* A status report: /api/v1/status with status succeeded or failed.
Report == [key: Keys, ok: BOOLEAN]

SharedTypeOK ==
    /\ policy \in [Keys -> PolicyObject \cup {None}]
    /\ ap \in [Keys -> ApObject \cup {None}]
    /\ resetCh \in Seq(Keys) /\ Len(resetCh) <= ResetCap
    /\ deleteCh \in Seq(Keys) /\ Len(deleteCh) <= DeleteCap
    /\ updateStatusCh \in Seq(Keys) /\ Len(updateStatusCh) <= UpdateStatusCap
    /\ updateDesiredNumber \in BOOLEAN
    /\ scheduled \subseteq Nodes /\ running \subseteq scheduled
    /\ loaded \in [Nodes -> [Keys -> 0..MaxVersion]]
    /\ loadOk \in [Nodes -> [Keys -> BOOLEAN]]
    /\ reports \in [Nodes -> Seq(Report)]
    /\ elapsed \in [Keys -> BOOLEAN]
    /\ lastVersion \in [Keys -> 0..MaxVersion]
    /\ informerPending \subseteq Keys

\* The outcomes of an API call: success, and failure where failures are on.
ApiOutcomes == IF ApiFailures THEN BOOLEAN ELSE {TRUE}

\* A buffered Go channel: a send blocks while the buffer is full.
CanSend(ch, cap) == Len(ch) < cap

\* Mutant: the Update is sent without ap.Finalizers = []string{}.
WithoutFinalizersKept(a) == a

\* RemoveArmorProfileFinalizers on an existing AP: the finalizers are
\* cleared, and an AP already being deleted is then removed by the server.
WithoutFinalizers(a) == IF a.deleting THEN None ELSE [a EXCEPT !.finalizer = FALSE]

\* The AP of key k is owned by no policy now stored under k.
Orphan(k) == /\ ap[k] # None
             /\ IF policy[k] = None THEN TRUE ELSE policy[k].uid # ap[k].owner

\* The AP object k is live: it exists and is not being deleted.
LiveAp(k) == ap[k] # None /\ ~ap[k].deleting

==============================================================================
