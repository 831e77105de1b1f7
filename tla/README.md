# TLA+ models of the vArmor policy manager

This directory has TLA+ models of the control plane of vArmor (`src/internal`). They cover these parts:
- the policy cacher that the admission webhook reads;
- the VarmorClusterPolicy controller;
- the StatusManager that turns agent reports into policy and ArmorProfile status;
- the BehaviorModeling lifecycle of a namespaced VarmorPolicy, with the merge of the agents' BehaviorData into the ArmorProfileModel;
- the agent-side behavior preprocessor that turns a node's BPF trace and audit records into BehaviorData;
- the AppArmor profile builder that turns a behaviour model into a profile.

Each model is checked with TLC. `PROJECT.json` holds the machine-readable version of this file:
- the components;
- the runs;
- a mutant for every checked property;
- the line map from each definition to the Go source;
- the findings;
- the hazard list.

## 1. The system and how its parts interact

| Part | Source | What it does |
|---|---|---|
| PolicyCacher | `internal/policycacher/policycacher.go` | Informer callbacks keep three maps per policy kind: target, enforcer and mode. `update*Policy` refuses an update that removes an activated AppArmor/Seccomp enforcer. |
| ClusterPolicyController | `internal/policy/clusterpolicy_controller.go` | Informer handlers put keys on a client-go rate-limited workqueue. A worker runs `syncClusterPolicy`, which takes one of four paths: delete, update, zombie-then-add, or add. It reads and writes ArmorProfile (AP) objects and talks to the StatusManager through three buffered channels: `ResetCh` and `DeleteCh` (capacity 50) and `UpdateStatusCh` (capacity 100). It also sets the `UpdateDesiredNumber` flag. `handleErr` retries up to `maxRetries`. |
| StatusManager | `internal/status/api/v1/manager.go` | One goroutine, `reconcileStatus`, owns `PolicyStatuses` and `select`s over the channels and a ticker. On a tick, `updateAllCRStatus` recounts every entry against the running agents and sends each key on `UpdateStatusCh`. An `UpdateStatusCh` case writes the AP status and then the policy's `ready` and `phase`. |
| Profile generator | `internal/profile/profile.go` | `GenerateProfile` maps a policy's (mode, enforcer) to a profile. `NewArmorProfile` builds the AP. |
| Status helpers | `internal/status/common/common.go` | `UpdateVarmorClusterPolicyStatus` writes the phase and ready fields. `MergeAppArmorResult` and `MergeSeccompResult` fold one node's BehaviorData into the ArmorProfileModel. `UpdateArmorProfileModelStatus` writes the model's completed count and ready flag. |
| Utilities | `internal/utils/utils.go` | `RemoveArmorProfileFinalizers`; `HTTPSPostWithRetryAndToken`, which agents use to post reports. |
| Behavior preprocessor | `internal/behavior/preprocessor/preprocessor.go` | On an agent, after the modeling duration, `Process` runs two passes. `gatherTargetPIDs` folds the BPF trace (fork and exec events) into `targetPIDs`, starting from the container's pids. `processAuditRecords` keeps the audit lines whose class the enforcer selects and whose pid is a target. The result is posted as BehaviorData. |
| AppArmor builder | `internal/profile/apparmor/builder.go` | `GenerateProfileWithBehaviorModel` turns the AppArmor part of a model into profile text: seven rule sections, most sorted with `sort.Strings`, then base64. |
| Environment (not under `src/`) | spec sections 2, 4.4, 4.5 and 6 | Users write policies. The Kubernetes garbage collector follows ownerReferences and finalizers. The agent DaemonSet loads APs on each node and posts the result to the status API. |

A user write reaches both the cacher and the controller. The controller creates or updates the AP. Agents load it and report. Reports fill `PolicyStatuses`, and `UpdateStatusCh` writes that data back to the AP and policy status. A delete strips the AP's finalizers, the garbage collector removes the AP, and `DeleteCh` drops the status entry. In BehaviorModeling, each agent's preprocessor produces BehaviorData, the data handler merges the nodes' data into the ArmorProfileModel, and the builder synthesises the enforce-mode profile from it.

## 2. Modules

| Module | Models | Correspondence |
|---|---|---|
| `Enforcers` | enforcer bitsets | A bitset is the set of its bits (`&` is `\cap`, `\|` is `\cup`). `RemovesActivatedEnforcer` is the guard `(new&old != old) && (new\|BPF != old)` used by both the cacher and `ignoreUpdate`. `DropsAppArmorOrSeccomp` is what the comment on that guard promises. |
| `PolicyIndex` | spec 4.3 and 8 (abstract) | What the webhook may rely on: per key, nothing or the (enforcer, mode) of the object's version at the step it changed. The index changes only by `Add`, by `Follow` when no AppArmor/Seccomp bit is dropped, or by `Forget` once the object is gone. |
| `PolicyCacher` | policycacher.go | Variables `targets`, `enforcer` and `mode` are the maps, keyed by cluster keys and namespaced keys. `policy` is the API object and `seen` is what the informer last delivered. Actions: `UserWrite`, and `DeliverClusterPolicy`/`DeliverPolicy`, which call the matching add, update or delete handler (`CacheAdd`, `CacheUpdate`, `CacheDelete`). The informer may coalesce several writes into one notification. |
| `VarmorState` | shared state of the system | Policy objects (uid, spec, phase, ready). AP objects (owner uid, finalizer, deleting, spec, version, status). The three channels as sequences with their capacities. `UpdateDesiredNumber`. The agents' state: scheduled, running, loaded version, and per-node FIFO report queues. `WithoutFinalizers` is `RemoveArmorProfileFinalizers`. |
| `ProfileGen` | profile.go | `GenerateProfile` is a CASE over mode × enforcer, with profile content abstracted to the template name. `bpfOk` is the outcome of the bpfprofile generator (not under `src/`), whose error is returned for BPF RuntimeDefault and EnhanceProtect. The controller calls an 8-argument `GenerateProfile` that is not under `src/`. The model follows the 5-argument one in profile.go; both switch on the same mode and enforcer. `NewArmorProfile` is the cluster-scope branch. |
| `StatusManager` | manager.go | Variables: `policyStatuses`, `desiredNumber`, and `smPc`/`tickTodo` (the position inside `updateAllCRStatus`). One action per select case: `ResetStatus`, `DeleteStatus` and `UpdateStatus`; `Tick` for the recount and `TickSend` for each blocking send; `ProcessReport` for the status API, modelled from the spec. API errors are `\E ok \in ApiOutcomes`. `SMRestart` is `Run` of a new leader: `retrieveDesiredNumber`, then `rebuildPolicyStatuses` (failure conditions of each AP on online nodes, every other online node Ready). |
| `ClusterPolicyController` | clusterpolicy_controller.go | The workqueue (`queue`, `dirty`, `processing`, `delayed`, `requeues`) follows client-go's Add/Get/Done/AddRateLimited. `worker[w].pc` marks where a sync is blocked: `sendReset`, `writeAp`, `sendUpdateStatus` or `sendDelete`. A sync runs atomically up to its first blocking channel send or its AP write, and keeps the AP it read (`snap`). `Sync` holds the path choice. `HandleAdd`, `HandleUpdate` and `HandleDelete` are the handlers, and `Finish` is `handleErr` plus `Done`. `CtrlRestart` is `Run` of a new leader: a fresh workqueue and idle workers, and the informer's initial list as add events for the policies that exist. |
| `Environment` | spec | `UserCreate`, `UserUpdate`, `UserDelete`, `GcCollect`, `AgentLoad`/`AgentUnload`, `LoseReport`, `NodeJoin`, `AgentStart`, `AgentStop`, and `Elapse` (the modeling duration passes). |
| `VarmorSystem` | the composition | `Next` lists every action of the three parts. `SM(A)`, `Ctrl(A)` and `Env(A)` leave the other parts' private variables unchanged. `Fairness` and the properties are defined here. |
| `VarmorFailover` | leader change | `Restart` replaces the manager process: `SMRestart` and `CtrlRestart` together, the channels emptied, API objects, agents and in-flight agent reports kept. At most `MaxRestarts` times; it gets no fairness. |
| `ProfileModelMerge` | common.go merges | Each "find, else append" loop is a left fold (`FoldLeft`) over the incoming list: `MergeList` for plain lists, and `MergeFile`, `MergePtrace` and `MergeSignal` for keyed entries, whose permissions are appended by `AddPerms`. `IsMergeOf` is the reference: what spec 4.1 says the model is (the deduplicated union of what was observed, with sub-lists of one key united). |
| `ModelingLifecycle` | manager.go namespaced branch, spec 4.5 | One BehaviorModeling VarmorPolicy. `UpdateStatus` is the VarmorPolicy branch of the `UpdateStatusCh` case, with `ModelingComplete` the completion test and its wall-clock fallback. `UpdateMode` is the `UpdateModeCh` case: the profile goes to enforce mode. `Tick` is the ticker and `Restart` is `Run` on a new leader, where `ModelingStatuses` starts empty. The status and data handlers and the agents are not under `src/` and are modelled from the spec. `DataHandler` merges a post with `MergeDynamicResult`, recounts `completedNumber`, writes the model status, and sends `UpdateModeCh` when the post completes modeling. It may deliver a post again, as the agent's HTTP retry does after a timeout. |
| `BehaviorPreprocessor` | preprocessor.go, spec 4.1 | Kernel actions, modelled from the spec: `Fork`, `Exec` (the runtime confines an unconfined process that execs in the container), `Setns` (a host process joins the container's mount namespace), `Act` (a confined process writes an audit line), `Exit` and `StopModeling`. The code's steps follow `Process`: `OpenTrace`, then `Gather`, one `Decode` per step, with `AddTarget` for the fork/exec switch. Then `CheckTargets`, `OpenAudit`, `ReadAudit` (one `ReadString` per step, with the filter `Keep`) and `Finish`. An audit line is (pid, class, behaviour), with a ghost flag for whether the target profile wrote it. Open and read failures are choices when `IoFaults` is TRUE. |
| `AppArmorBuilder` | builder.go | One operator per section builder, and `GenerateProfileWithBehaviorModel`. A rule is the record its text is formatted from. A list sorted by `sort.Strings` is its bag (`Sorted`), because sorted text is a function of the bag; a list joined unsorted stays a sequence. The template and base64 are injective, so they are left out. `ModelingLifecycle` extends it and applies it to the merged model. |
| `MC_PolicyCacher`, `MC_VarmorSystem`, `MC_VarmorFailover`, `MC_ModelingLifecycle`, `MC_BehaviorPreprocessor` | TLC instances | Model values and small sets for keys, nodes, targets and specs. |

Shared variables are passed by `EXTENDS`. The composition is a diamond: `StatusManager`, `ClusterPolicyController` and `Environment` all extend `VarmorState`.

## 3. Runs

Every cfg uses ResetCap 50 and DeleteCap 50, the channel capacities in manager.go:73-74. It also uses MaxRetries 2. `maxRetries` is read at clusterpolicy_controller.go:610 but not defined under `src/`, so 2 is a choice: small enough that the retry-then-drop path is reached. MaxVersion is 4, and `w1` is one worker.

| Run | cfg | Expect | What it shows |
|---|---|---|---|
| cacher | `PolicyCacher.cfg` | pass | 1 cluster key and 1 namespaced key, 1 target, 2 modes, all 7 enforcer sets, up to 4 writes (222k states). `IndexRefinement`: the cacher implements `PolicyIndex` (see Refinement below). |
| system_safety | `VarmorSystem_safety.cfg` | pass | 1 key, 1 node, 6 specs (including AppArmor→BPF swaps, AppArmor+BPF, BehaviorModeling and an ill-formed one), 2 uids, 3 user writes, API failures and BPF generator errors on (1.6M states, about 1 min). `TypeOK`: the workqueue, the requeue counts and the channels stay within their bounds; handleErr's maxRetries check is what bounds the requeues. The run also fires the error paths that no liveness run reaches. |
| system_liveness | `VarmorSystem_liveness.cfg` | pass | 1 key, 2 nodes, 1 agent stop or node leave, 2 writes of AlwaysAllow/RuntimeDefault specs, no API failures (about 2 min). `StatusConverges`: ready eventually settles on "every scheduled agent loaded the current AP". `OrphanApRemoved`: an AP whose owner is gone is eventually removed. |
| failover_liveness | `VarmorFailover_liveness.cfg` | pass | 1 node, 1 uid, 3 writes, one leader change at any point (74k states). `ArmorProfileEventuallyCreated`: every policy still gets its AP, because the new informer relists it. |
| stale_ready | `VarmorSystem_stale_ready.cfg` | violation | `ReadyOnlyAfterLoad` fails. After an AlwaysAllow→RuntimeDefault update, ready is set from messages about the previous version. |
| tick_block | `VarmorSystem_tick_block.cfg` | violation | `TickNeverBlocks` fails (2 keys, UpdateStatusCap 1). The tick blocks on its own channel. |
| delete_race | `VarmorSystem_delete_race.cfg` | violation | `StatusConverges` fails with 2 uids. The old policy's `DeleteCh` key is taken after the re-created policy's first report and drops its entry; the policy never becomes ready. |
| recreate_lost | `VarmorSystem_recreate_lost.cfg` | violation | `ArmorProfileEventuallyCreated` fails. Delete and re-create before the delete is synced: the zombie path strips the old AP's finalizers, `Create` fails with AlreadyExists until `maxRetries` drops the key. |
| failover_orphan | `VarmorFailover_orphan.cfg` | violation | `OrphanApRemoved` fails. A delete pending at the leader change is never seen by the new leader. |
| modeling | `ModelingLifecycle.cfg` | pass | 2 nodes, 3 kinds of BehaviorData (AppArmor and Seccomp; an overlapping file with other permissions and a prior path; none), one post delivered twice, up to one leader change (60k states, about 1.5 min). `ModelIsUnionOfReports`: the model is the merge of what was posted, in any order. `ProfileIndependentOfPostOrder`: the profile the builder makes from the merged model, with debug off, equals the one made from the same data merged in one fixed order (spec 4.2). `ModelingCompletesWithoutFailover`: in the behaviours without a leader change, the policy ends Completed, ready and enforcing. The safety properties also hold across the leader change. |
| preprocessor | `BehaviorPreprocessor.cfg` | pass | 4 pids: a container process, a host process, another container's process, one free pid. Up to 2 trace events and 2 audit lines, 2 classes with one selected by the enforcer, read failures on (6.1M states, about 30 s). `AttributionSound`: every behaviour in the result was audited for a process of the target container. `AttributionComplete`: when both files were read, every audited behaviour of the container is in the result. |
| modeling_restart | `ModelingLifecycle_restart.cfg` | violation | `ModelingCompletes` fails with one leader change. The change falls between the two nodes' data posts; the new leader counts 1 of 2 nodes, and the fallback needs phase Completed, so the phase stays Modeling. The profile also stays in complain mode, but only because the namespaced controller is not modelled (not under `src/`). |

Findings are explained in `PROJECT.json` (`findings`), each with the source line.

**Bounds.** One key suffices for per-key properties, because keys interact only through the shared channels; two keys are used where the channel capacity matters (tick_block). Two nodes are needed for convergence: with only one node the run could reach zero scheduled nodes, a state for which the code creates no status entry. One churn event gives both an agent restart and a node leave. Two uids give the re-create of a deleted policy's name; the passing liveness run uses one, because with two `StatusConverges` and `ArmorProfileEventuallyCreated` fail (delete_race, recreate_lost). One leader change suffices: after it the system is a fresh start over the surviving API objects, and a second change only repeats that. The mutants in `PROJECT.json` show that each passing property breaks under a one-line bug in the mapped code.

**Modeling bounds and fairness.** Two nodes are the least for which the order of posts and a partial count exist. The three BehaviorData values share a file key with different permissions and prior paths, so every merge branch runs. One resend gives the duplicate delivery. In `ModelingLifecycle` the `select` cases are strongly fair, as above. The handlers, the agents and the passing of the modeling duration are weakly fair. The leader change gets no fairness.

**Preprocessor bounds.** Two trace events are enough for the hard orderings: a host process that joins the container and execs, then forks; or a fork whose child then execs. Two audit lines give one line from the target and one from elsewhere. Modeling may start before the container has a process, so the seed set can be empty and the exec path is the only way in. The run says `CHECK_DEADLOCK FALSE`, because the preprocessor really does stop once `Process` returns. The pids are not reused (`PidReuse = FALSE`); see the observations.

**Timing assumption.** `Tick` is enabled only when `UpdateStatusCh` is empty. The ticker period (`statusUpdateCycle`, minutes) is far longer than draining the channel, and without this limit the channel grows to its capacity of 100 in the state space. tick_block shows the channel can still be full during a tick, because the controller keeps sending.

**Fairness (FairSpec).** `reconcileStatus` chooses uniformly at random among its ready `select` cases. A case that is enabled again and again is therefore taken eventually, so its cases are strongly fair. (They are disabled while the goroutine is inside the tick, which is why weak fairness is not enough.) Worker steps, the informer's enqueue, the rate limiter, the garbage collector, agent start and agent loads/unloads are weakly fair: each keeps running while it can. Users, node churn, lost reports, the modeling clock and the leader change get no fairness.

**Refinement.** `PolicyCacher` defines `CachedIndex`, the enforcer and mode maps read as one pair per key, and `Abstract == INSTANCE PolicyIndex WITH index <- CachedIndex` (the other constants and `policy` by name). `IndexRefinement == Abstract!Spec` is checked as a PROPERTY. A user write is `Write`, an add delivery is `Add`, an accepted update `Follow`, a delete `Forget`, and a refused update is a stutter of the abstract index. The target map is left out: `update*Policy` never changes it.

**Properties withdrawn.** Two properties of earlier versions were removed because the model's own structure made them hold:
- `EnforcerNeverDroppedFromProfile` said an owned AP never loses an activated enforcer. `GenerateProfile` only succeeds for a single enforcer, and `ignoreUpdate` refuses every change between two different single enforcers, so the property only restated that guard.
- `EnforceOnlyAfterEveryNodeModelled` depended on how the data handler counts nodes. That handler is not under `src/`, so the count is the model's assumption.

**Observations not checked by a run.** Three runs of earlier versions were dropped to keep the run list short. Both can be reproduced by editing a cfg:
- *Finalizer leak.* Use `VarmorSystem_liveness.cfg` with `ApiFailures = TRUE`, one node and MaxUid 2. `OrphanApRemoved` then fails: `handleDeleteVarmorClusterPolicy` (clusterpolicy_controller.go:171) only logs a failed `RemoveArmorProfileFinalizers` and returns nil, and the AP stays Terminating.
- *Reset race* (code_bug, clusterpolicy_controller.go:474). Use `VarmorSystem_liveness.cfg` with `Nodes <- MCNodes1`, `UserSpecs <- MCModelingSpecs`, MaxChurn 0 and `PROPERTY StatusConverges` (API failures stay off; about 5k states). It fails: `handleUpdateVarmorClusterPolicy` sends `ResetCh` before it writes the AP. The write can fail with a conflict, because the StatusManager wrote the same AP's status after the sync read it. If the retry runs after the modeling duration, `complete` is true and the new spec equals the stored one, so only `UpdateStatusCh` is sent. The AP is never rewritten, no agent reports again, and the policy stays not ready.
- *Failover status.* Use `VarmorFailover_liveness.cfg` with `PROPERTY StatusConverges`. It fails: `rebuildPolicyStatuses` (manager.go:178) marks as Ready an online node whose failure report was in `PolicyStatuses` but not yet in the AP's conditions.

Three observations about the modeling path are left unchecked:
- No code under `src/` writes phase Protecting for a namespaced BehaviorModeling policy after Completed. Spec test 3 says Modeling → Completed → Protecting.
- `MergeFile` keeps the first non-empty `OldPath`, so the merged model depends on the order of posts. The spec asks for both "adopt `oldPath` iff previously empty" and a commutative merge, which contradict each other. `ModelIsUnionOfReports` only requires a prior path that some node observed.
- A node joining after completion raises `desiredNumber` above `completedNumber`, so the next `UpdateStatus` writes Modeling again.

Four observations about the preprocessor and the builder are left unchecked:
- *Pid reuse.* With `PidReuse = TRUE`, `AttributionSound` fails. The container's process exits, and another container's process forks a child that gets the same pid. `targetPIDs` never removes a pid, so the child's audit lines are posted as the container's (preprocessor.go:139-148, 188).
- *I/O failure.* A failed open of the BPF file, or a decode or read error, ends the loop silently. `Process` then posts what was read so far with status succeeded. Spec 4.1 says any I/O failure yields the default empty document. `AttributionSound` still holds on those paths.
- *One pass vs. fixed point.* Spec 4.1 says the one pass over the trace computes the fixed point of the fork/exec closure. That is not so when a host process forks before it joins the container. The code's one pass attributes the child correctly: the child is not in the container.
- *Debug output.* With `Debug = TRUE`, `ProfileIndependentOfPostOrder` fails. Signal rules are joined unsorted (builder.go:155-165), so post order changes the text. Ptrace permissions keep their arrival order, and each signal rule's peer is the profile's own name, not the observed peer. A model with no AppArmor part (`AppArmor == nil`) would be dereferenced by the builder; the model only builds when the part exists.

Two single-step divergences seen while modelling are left to unit tests: the cacher's guard `(new&old != old) && (new|BPF != old)` refuses an AppArmor+BPF → AppArmor+Seccomp update although its comment (policycacher.go:92) only promises to refuse removals of AppArmor or Seccomp; and the cluster-scope `UpdateStatusCh` branch (manager.go:400) writes phase Protecting for a BehaviorModeling policy, where spec 4.5 says Modeling.

**Deadlock** is checked in every VarmorSystem run, because an idle system still takes the tick's early-return step. The PolicyCacher and preprocessor runs say `CHECK_DEADLOCK FALSE`, because the cacher stops once every write has been delivered, and the preprocessor once `Process` returns.

## 4. Not modelled, and why

- **Namespaced VarmorPolicy controller** (not under `src/`): its result, a complain-mode AP with behaviorModeling on, is `ModelingLifecycle`'s Init. The namespaced `ResetCh`/`DeleteCh` handling of `ModelingStatuses` is not modelled, and neither are the model-status conditions for failed nodes (every data post succeeds).
- **Leader election itself** (not under `src/`): modelled only as the `Restart` step. The namespace and per-namespace AP list errors of `rebuildPolicyStatuses` are one outcome: all cluster-scope APs live in one namespace.
- **Controller side paths.** The egress cache, workload-restart goroutines, `RequestSizeError`, the legacy no-ownerReference branch and `resetArmorProfileModelStatus`. None of them changes the state the properties read.
- **Event parsing and normalisation** (`parseAppArmorEvent`, `parseSeccompEvent`, `parse*EventForTree`, `parseOverlayInfo`: not under `src/`). An audit line is abstracted to (pid, class, behaviour). The preprocessor's debug file is not modelled either: it is output only, except that a failed `os.Create` makes `Process` return nil.
- **Config and the seccomp helpers** (`internal/config/config.go`, `pkg/seccomp/seccomp.go`). These are constants, environment lookups and stateless list helpers. Nothing from config.go enters the models. The channel capacities come from manager.go, and `maxRetries` is defined outside `src/`; both are CONSTANTS.
- **Profile text in the controller path.** `ProfileGen` abstracts the template text to its name. The builder's text is modelled as rule records.
- **The webhook's unlocked reads of the cacher maps.** This is a Go data race (see hazards), not a state TLC could show.
- **Cross-restart reordering of an agent's reports.** Each agent's reports are FIFO, and a stop drops its in-flight posts.

## 5. Plan for the next sittings

1. An abstract spec of the status pipeline, where ready is a function of which nodes loaded the current version, and a refinement from `VarmorSystem` under the fixes of stale_ready and delete_race.
2. Node churn during modeling (desiredNumber changes), and failed data posts producing model conditions.
3. Reordered and duplicated agent reports across agent restarts (manager.go:287).
4. Compose the preprocessor with `ModelingLifecycle`: each node's BehaviorData comes from a `BehaviorPreprocessor` instance, not from a fixed set.
