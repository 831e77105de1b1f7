--------------------------- MODULE ModelingLifecycle ---------------------------
(***************************************************************************)
(* The BehaviorModeling lifecycle of one namespaced VarmorPolicy K in the  *)
(* StatusManager (internal/status/api/v1/manager.go): the namespaced      *)
(* branch of the UpdateStatusCh case, the UpdateModeCh case, the ticker,   *)
(* ModelingStatuses, and a change of leader (Run on a new manager).        *)
(* The VarmorPolicy controller, the agents and the two HTTP handlers of   *)
(* the status service are not under src/ and are modelled from the spec:  *)
(* the controller has created the ArmorProfile in complain mode with      *)
(* behaviorModeling enabled; agents load it and post a status report;     *)
(* once the modeling duration is over each agent posts its BehaviorData,  *)
(* which the data handler merges into the ArmorProfileModel (common.go),  *)
(* records in ModelingStatuses, and, when modeling becomes complete,      *)
(* sends K on UpdateModeCh (spec 4.5).  API calls succeed; the agent set  *)
(* is fixed, so desiredNumber is the number of nodes.                     *)
(***************************************************************************)
EXTENDS AppArmorBuilder, FiniteSets

CONSTANTS
    Nodes,         \* nodes running an agent
    Datas,         \* BehaviorData results an agent can post
    MaxResends,    \* bound on data posts delivered again (HTTP retry after a timeout)
    MaxRestarts,   \* bound on leader changes
    Debug          \* the debug flag GenerateProfileWithBehaviorModel is given

Ready      == "ArmorProfileReady"       \* varmortypes.ArmorProfileReady
ModelReady == "ArmorProfileModelReady"  \* varmor.ArmorProfileModelReady
NoMsg      == "NoMsg"

desiredNumber == Cardinality(Nodes)

VARIABLES
    vp,              \* VarmorPolicy status: [phase, ready]
    ap,              \* ArmorProfile: [version, modeling] (modeling: complain profile, behaviorModeling.enable)
    apm,             \* ArmorProfileModel: [data (DynamicResult), completed, desired, ready]
    received,        \* ghost: <<node, BehaviorData>> pairs merged into apm so far
    policyStatus,    \* m.PolicyStatuses[K]: None or node -> message
    modelingStatus,  \* m.ModelingStatuses[K]: None or [completed, msgs]
    updateStatusCh,  \* keys on m.UpdateStatusCh (only K)
    updateModeCh,    \* keys on m.UpdateModeCh (only K)
    loaded,          \* AP version each agent has loaded (0: none)
    statusPosts,     \* per node: status reports in flight
    dataPosts,       \* per node: BehaviorData posts in flight
    posted,          \* nodes whose agent has posted its BehaviorData
    elapsed,         \* the modeling duration has passed since the AP was created
    resends,         \* data posts delivered again so far
    restarts         \* leader changes so far

vars == <<vp, ap, apm, received, policyStatus, modelingStatus, updateStatusCh,
          updateModeCh, loaded, statusPosts, dataPosts, posted, elapsed, resends,
          restarts>>

Phases == {"Pending", "Modeling", "Completed", "Error"}

TypeOK ==
    /\ vp \in [phase: Phases, ready: BOOLEAN]
    /\ ap \in [version: 1..2, modeling: BOOLEAN]
    /\ apm.completed \in 0..desiredNumber /\ apm.ready \in BOOLEAN
    /\ received \subseteq Nodes \X Datas
    /\ policyStatus \in [Nodes -> {Ready, NoMsg}] \cup {None}
    /\ modelingStatus \in [completed: 0..desiredNumber, msgs: [Nodes -> {ModelReady, NoMsg}]] \cup {None}
    /\ updateStatusCh \in Seq({"K"}) /\ updateModeCh \in Seq({"K"})
    /\ loaded \in [Nodes -> 0..2]
    /\ posted \subseteq Nodes /\ elapsed \in BOOLEAN
    /\ resends \in 0..MaxResends /\ restarts \in 0..MaxRestarts

Init ==
    /\ vp = [phase |-> "Pending", ready |-> FALSE]
    /\ ap = [version |-> 1, modeling |-> TRUE]
    /\ apm = [data |-> EmptyModel, completed |-> 0, desired |-> 0, ready |-> FALSE]
    /\ received = {}
    /\ policyStatus = None /\ modelingStatus = None
    /\ updateStatusCh = <<>> /\ updateModeCh = <<>>
    /\ loaded = [n \in Nodes |-> 0]
    /\ statusPosts = [n \in Nodes |-> <<>>] /\ dataPosts = [n \in Nodes |-> <<>>]
    /\ posted = {} /\ elapsed = FALSE /\ resends = 0 /\ restarts = 0

Count(msgs, m) == Cardinality({n \in Nodes : msgs[n] = m})

\* Mutant: the handler counts posts instead of nodes.
ModelingIncrement(old, msgs) == old.completed + 1

\* completedNumber: the nodes whose modeling message is ArmorProfileModelReady.
ModelingRecount(old, msgs) == Count(msgs, ModelReady)

-----------------------------------------------------------------------------
(* reconcileStatus *)

(***************************************************************************)
(* case <-UpdateStatusCh, namespaced branch.  Modeling is complete when   *)
(* ModelingStatuses has K and completedNumber >= desiredNumber, or, when   *)
(* it has not, when the policy is already Completed and the modeling      *)
(* duration has passed since the AP was created.  The AP status write is  *)
(* not modelled: with loads that never fail it holds no failure.          *)
(***************************************************************************)
\* Mutant: completedNumber must exceed desiredNumber.
ModelingCompleteStrict ==
    IF modelingStatus # None THEN modelingStatus.completed > desiredNumber
    ELSE vp.phase = "Completed" /\ elapsed

ModelingComplete ==
    IF modelingStatus # None THEN modelingStatus.completed >= desiredNumber
    ELSE vp.phase = "Completed" /\ elapsed

UpdateStatus ==
    /\ updateStatusCh # <<>>
    /\ updateStatusCh' = Tail(updateStatusCh)
    /\ IF policyStatus = None THEN UNCHANGED vp
       ELSE LET phase == IF ModelingComplete THEN "Completed" ELSE "Modeling"
                ready == Count(policyStatus, Ready) >= desiredNumber
            \* updateVarmorPolicyStatus: nothing when both are equal.
            IN vp' = [phase |-> phase, ready |-> ready]
    /\ UNCHANGED <<ap, apm, received, policyStatus, modelingStatus, updateModeCh,
                   loaded, statusPosts, dataPosts, posted, elapsed, resends, restarts>>

\* case <-ticker.C: updateAllCRStatus.  Nothing when PolicyStatuses is empty;
\* every agent runs, so the recount keeps every message; K is sent.
Tick ==
    /\ policyStatus # None /\ updateStatusCh = <<>>
    /\ updateStatusCh' = <<"K">>
    /\ UNCHANGED <<vp, ap, apm, received, policyStatus, modelingStatus, updateModeCh,
                   loaded, statusPosts, dataPosts, posted, elapsed, resends, restarts>>

(***************************************************************************)
(* case <-UpdateModeCh: zero the PolicyStatuses entry if there is one,    *)
(* regenerate the profile with complete = true and update the AP with     *)
(* behaviorModeling disabled (an Update that changes nothing leaves the   *)
(* object, and its version, as it is).                                    *)
(***************************************************************************)
UpdateMode ==
    /\ updateModeCh # <<>>
    /\ updateModeCh' = Tail(updateModeCh)
    /\ policyStatus' = IF policyStatus = None THEN None ELSE [n \in Nodes |-> NoMsg]
    /\ ap' = IF ap.modeling THEN [version |-> ap.version + 1, modeling |-> FALSE] ELSE ap
    /\ UNCHANGED <<vp, apm, received, modelingStatus, updateStatusCh, loaded,
                   statusPosts, dataPosts, posted, elapsed, resends, restarts>>

-----------------------------------------------------------------------------
(* The status service (spec 6) and the agents (spec 4.5, 6). *)

\* /api/v1/status: the node's message becomes ArmorProfileReady.
StatusHandler(n) ==
    /\ statusPosts[n] # <<>>
    /\ statusPosts' = [statusPosts EXCEPT ![n] = Tail(@)]
    /\ policyStatus' = [(IF policyStatus = None THEN [m \in Nodes |-> NoMsg]
                         ELSE policyStatus) EXCEPT ![n] = Ready]
    /\ UNCHANGED <<vp, ap, apm, received, modelingStatus, updateStatusCh,
                   updateModeCh, loaded, dataPosts, posted, elapsed, resends, restarts>>

(***************************************************************************)
(* UpdateArmorProfileModelStatus (common.go): conditions for the nodes    *)
(* whose message is not ArmorProfileModelReady (none here: every post     *)
(* succeeded); nothing is written when they and completedNumber are       *)
(* unchanged; else desired and completed are written, and ready once      *)
(* complete.                                                              *)
(***************************************************************************)
UpdateArmorProfileModelStatus(st, ms, complete) ==
    IF st.completed = ms.completed THEN st
    ELSE [st EXCEPT !.desired = desiredNumber, !.completed = ms.completed,
                    !.ready = @ \/ complete]

(***************************************************************************)
(* /api/v1/data: merge the BehaviorData into the ArmorProfileModel, set   *)
(* the node's modeling message, recount, write the model's status, and    *)
(* send UpdateMode when this post makes modeling complete.  A post whose  *)
(* response timed out is sent again by the agent's retry loop.            *)
(***************************************************************************)
DataHandler(n) ==
    /\ dataPosts[n] # <<>>
    /\ LET d    == Head(dataPosts[n])
           old  == IF modelingStatus = None
                   THEN [completed |-> 0, msgs |-> [m \in Nodes |-> NoMsg]]
                   ELSE modelingStatus
           msgs == [old.msgs EXCEPT ![n] = ModelReady]
           ms   == [completed |-> ModelingRecount(old, msgs), msgs |-> msgs]
           complete == ms.completed >= desiredNumber
       IN /\ modelingStatus' = ms
          /\ apm' = [UpdateArmorProfileModelStatus(apm, ms, complete) EXCEPT
                       !.data = MergeDynamicResult(apm.data, d)]
          /\ received' = received \cup {<<n, d>>}
          /\ updateModeCh' = IF complete /\ old.completed < desiredNumber
                             THEN Append(updateModeCh, "K") ELSE updateModeCh
    /\ \/ dataPosts' = [dataPosts EXCEPT ![n] = Tail(@)] /\ UNCHANGED resends
       \/ resends < MaxResends /\ resends' = resends + 1 /\ UNCHANGED dataPosts
    /\ UNCHANGED <<vp, ap, policyStatus, updateStatusCh, loaded, statusPosts,
                   posted, elapsed, restarts>>

\* An agent loads the current profile and reports it.
AgentLoad(n) ==
    /\ loaded[n] # ap.version
    /\ loaded' = [loaded EXCEPT ![n] = ap.version]
    /\ statusPosts' = [statusPosts EXCEPT ![n] = Append(@, ap.version)]
    /\ UNCHANGED <<vp, ap, apm, received, policyStatus, modelingStatus,
                   updateStatusCh, updateModeCh, dataPosts, posted, elapsed,
                   resends, restarts>>

\* When the modeling duration is over, an agent that modelled with the
\* complain profile preprocesses its audit records and posts the result.
AgentPostData(n) ==
    /\ elapsed /\ n \notin posted /\ loaded[n] = 1
    /\ \E d \in Datas : dataPosts' = [dataPosts EXCEPT ![n] = Append(@, d)]
    /\ posted' = posted \cup {n}
    /\ UNCHANGED <<vp, ap, apm, received, policyStatus, modelingStatus,
                   updateStatusCh, updateModeCh, loaded, statusPosts, elapsed,
                   resends, restarts>>

Elapse ==
    /\ ~elapsed /\ elapsed' = TRUE
    /\ UNCHANGED <<vp, ap, apm, received, policyStatus, modelingStatus,
                   updateStatusCh, updateModeCh, loaded, statusPosts, dataPosts,
                   posted, resends, restarts>>

(***************************************************************************)
(* A new leader runs StatusManager.Run: rebuildPolicyStatuses marks every *)
(* running node Ready (the AP has no failure condition), ModelingStatuses *)
(* starts empty (it is not rebuilt, manager.go:52), the channels are new. *)
(* Posts in flight reach the new leader.                                  *)
(***************************************************************************)
Restart ==
    /\ restarts < MaxRestarts
    /\ policyStatus' = [n \in Nodes |-> Ready]
    /\ modelingStatus' = None
    /\ updateStatusCh' = <<>> /\ updateModeCh' = <<>>
    /\ restarts' = restarts + 1
    /\ UNCHANGED <<vp, ap, apm, received, loaded, statusPosts, dataPosts, posted,
                   elapsed, resends>>

Next ==
    \/ UpdateStatus \/ Tick \/ UpdateMode \/ Elapse \/ Restart
    \/ \E n \in Nodes : StatusHandler(n) \/ DataHandler(n) \/ AgentLoad(n)
                        \/ AgentPostData(n)

(***************************************************************************)
(* reconcileStatus picks among its ready cases at random (strong fairness *)
(* for each case); the ticker keeps firing, handlers serve their posts,   *)
(* agents load and post, and the modeling duration passes.  The leader    *)
(* change is a fault and gets no fairness.                                 *)
(***************************************************************************)
Fairness ==
    /\ SF_vars(UpdateStatus) /\ SF_vars(UpdateMode) /\ SF_vars(Tick)
    /\ WF_vars(Elapse)
    /\ \A n \in Nodes : WF_vars(StatusHandler(n)) /\ WF_vars(AgentLoad(n))
                        /\ WF_vars(AgentPostData(n))
                        /\ WF_vars(DataHandler(n) /\ dataPosts' # dataPosts)

Spec == Init /\ [][Next]_vars /\ Fairness

-----------------------------------------------------------------------------
(* Properties *)

(* The ArmorProfileModel the data handler builds with MergeAppArmorResult *)
(* and MergeSeccompResult is the union of the BehaviorData merged so far   *)
(* (spec 4.1: deduplicated by identity, permission sub-lists united),     *)
(* whatever the order in which nodes post and however often a post is     *)
(* delivered again.                                                       *)
ModelIsUnionOfReports == IsMergeOf(apm.data, {r[2] : r \in received})

(* AppArmor profile synthesis (builder.go) from the model must not depend *)
(* on the order in which the nodes' posts were merged (spec 4.2: the same *)
(* behaviour model gives byte-identical output regardless of insertion    *)
(* order).  The profile built from the model as merged so far equals the  *)
(* one built from the same BehaviorData merged in one fixed order.        *)
ProfileIndependentOfPostOrder ==
    LET canonical == FoldLeft(MergeDynamicResult, EmptyModel,
                              SetToSeq({r[2] : r \in received}))
    IN apm.data.appArmor # None =>
         GenerateProfileWithBehaviorModel(apm.data.appArmor, Debug)
           = GenerateProfileWithBehaviorModel(canonical.appArmor, Debug)

(* Spec test 3: a BehaviorModeling policy whose agents all model ends up  *)
(* with an enforce-mode profile (behaviorModeling disabled), phase         *)
(* Completed and ready.                                                   *)
ModelingCompletes ==
    <>[](~ap.modeling /\ vp.phase = "Completed" /\ vp.ready)

(* The same for the behaviours with no leader change: the counting path  *)
(* through ModelingStatuses and UpdateModeCh completes on its own, with   *)
(* posts in any order and delivered twice.  (With a leader change it does *)
(* not: modeling_restart.)                                                *)
ModelingCompletesWithoutFailover ==
    [](restarts = 0) => ModelingCompletes

==============================================================================
