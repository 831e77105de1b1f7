------------------------------ MODULE Environment ------------------------------
(***************************************************************************)
(* What surrounds the manager: users writing VarmorClusterPolicies, the   *)
(* Kubernetes garbage collector acting on ownerReferences and finalizers,  *)
(* the agent DaemonSet (nodes joining and leaving, agent pods starting and *)
(* stopping), agents loading ArmorProfiles and reporting the result to     *)
(* /api/v1/status, and the passing of the modeling duration.  None of it   *)
(* is code under src/; it is modelled from the specification.             *)
(***************************************************************************)
EXTENDS VarmorState

CONSTANTS
    MaxUserOps,  \* bound on user writes (create, update, delete)
    MaxChurn     \* bound on node leaves and agent stops

VARIABLES
    nextUid,     \* uid the next created policy gets
    userOps,     \* user writes so far
    churn        \* node leaves and agent stops so far

envVars == <<nextUid, userOps, churn>>

EnvTypeOK ==
    /\ nextUid \in 1..MaxUid + 1
    /\ userOps \in 0..MaxUserOps
    /\ churn \in 0..MaxChurn

\* The API objects and channels the environment never changes.
ctlState == <<resetCh, deleteCh, updateStatusCh, updateDesiredNumber, lastVersion>>

EnvInit ==
    /\ nextUid = 1 /\ userOps = 0 /\ churn = 0

-----------------------------------------------------------------------------
(* Users.  Every user write is an event the controller's informer delivers. *)

UserWrite(k, obj) ==
    /\ userOps < MaxUserOps
    /\ policy' = [policy EXCEPT ![k] = obj]
    /\ informerPending' = informerPending \cup {k}
    /\ userOps' = userOps + 1

UserCreate(k, s) ==
    /\ policy[k] = None /\ nextUid <= MaxUid
    /\ UserWrite(k, [uid |-> nextUid, spec |-> s, phase |-> "", ready |-> FALSE])
    /\ nextUid' = nextUid + 1
    /\ UNCHANGED <<ap, nodeVars, elapsed, churn, ctlState>>

UserUpdate(k, s) ==
    /\ policy[k] # None /\ policy[k].spec # s
    /\ UserWrite(k, [policy[k] EXCEPT !.spec = s])
    /\ UNCHANGED <<ap, nodeVars, elapsed, nextUid, churn, ctlState>>

UserDelete(k) ==
    /\ policy[k] # None
    /\ UserWrite(k, None)
    /\ UNCHANGED <<ap, nodeVars, elapsed, nextUid, churn, ctlState>>

\* The garbage collector deletes an AP whose owner is gone (background
\* deletion): it is marked deleting, and removed at once if no finalizer
\* holds it.
GcCollect(k) ==
    /\ Orphan(k) /\ ~ap[k].deleting
    /\ ap' = [ap EXCEPT ![k] = IF @.finalizer THEN [@ EXCEPT !.deleting = TRUE]
                                ELSE None]
    /\ UNCHANGED <<policy, nodeVars, elapsed, informerPending, envVars, ctlState>>

-----------------------------------------------------------------------------
(* Agents and nodes. *)

\* An agent loads the current version of a live AP, successfully or not,
\* and posts the result (HTTPSPostWithRetryAndToken returns only when the
\* post succeeded or was given up, so an agent's reports stay in order).
AgentLoad(n, k) ==
    /\ n \in running /\ LiveAp(k) /\ loaded[n][k] # ap[k].version
    /\ \E ok \in BOOLEAN :
         /\ loaded' = [loaded EXCEPT ![n][k] = ap[k].version]
         /\ loadOk' = [loadOk EXCEPT ![n][k] = ok]
         /\ reports' = [reports EXCEPT ![n] = Append(@, [key |-> k, ok |-> ok])]
    /\ UNCHANGED <<policy, ap, scheduled, running, elapsed, informerPending,
                   envVars, ctlState>>

\* An agent unloads the profile of an AP that is deleted or being deleted.
AgentUnload(n, k) ==
    /\ loaded[n][k] # 0 /\ ~LiveAp(k)
    /\ loaded' = [loaded EXCEPT ![n][k] = 0]
    /\ UNCHANGED <<policy, ap, scheduled, running, loadOk, reports, elapsed,
                   informerPending, envVars, ctlState>>

\* HTTPSPostWithRetryAndToken gives up after its retries: the report is lost.
LoseReport(n) ==
    /\ ApiFailures /\ reports[n] # <<>>
    /\ reports' = [reports EXCEPT ![n] = Tail(@)]
    /\ UNCHANGED <<policy, ap, scheduled, running, loaded, loadOk, elapsed,
                   informerPending, envVars, ctlState>>

\* Nodes schedule an agent pod; it starts Running later.
NodeJoin(n) ==
    /\ n \notin scheduled
    /\ scheduled' = scheduled \cup {n}
    /\ UNCHANGED <<policy, ap, running, loaded, loadOk, reports, elapsed,
                   informerPending, envVars, ctlState>>

AgentStart(n) ==
    /\ n \in scheduled \ running
    /\ running' = running \cup {n}
    /\ UNCHANGED <<policy, ap, scheduled, loaded, loadOk, reports, elapsed,
                   informerPending, envVars, ctlState>>

\* An agent pod stops (it reloads everything when it starts again, and the
\* posts it had not made die with it), or its node leaves the cluster.
AgentStop(n, leave) ==
    /\ n \in running \/ (leave /\ n \in scheduled)
    /\ churn < MaxChurn
    /\ running' = running \ {n}
    /\ scheduled' = IF leave THEN scheduled \ {n} ELSE scheduled
    /\ loaded' = [loaded EXCEPT ![n] = [k \in Keys |-> 0]]
    /\ reports' = [reports EXCEPT ![n] = <<>>]
    /\ churn' = churn + 1
    /\ UNCHANGED <<policy, ap, loadOk, elapsed, informerPending,
                   nextUid, userOps, ctlState>>

\* The modeling duration since the AP's creation passes.  Only a policy in
\* BehaviorModeling reads it, so it is let pass only while there is one.
Elapse(k) ==
    /\ ap[k] # None /\ ~elapsed[k]
    /\ policy[k] # None /\ policy[k].spec.mode = "BehaviorModeling"
    /\ elapsed' = [elapsed EXCEPT ![k] = TRUE]
    /\ UNCHANGED <<policy, ap, nodeVars, informerPending, envVars, ctlState>>

EnvNext ==
    \/ \E k \in Keys : \/ \E s \in UserSpecs : UserCreate(k, s) \/ UserUpdate(k, s)
                       \/ UserDelete(k) \/ GcCollect(k) \/ Elapse(k)
    \/ \E n \in Nodes : \/ NodeJoin(n) \/ AgentStart(n)
                        \/ \E leave \in BOOLEAN : AgentStop(n, leave)
                        \/ \E k \in Keys : AgentLoad(n, k) \/ AgentUnload(n, k)
                        \/ LoseReport(n)

==============================================================================
