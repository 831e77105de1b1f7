------------------------------ MODULE VarmorSystem ------------------------------
(***************************************************************************)
(* The cluster-policy pipeline: the ClusterPolicyController's workers and  *)
(* the StatusManager's reconcile goroutine, joined by the three command    *)
(* channels, the UpdateDesiredNumber flag and the API objects, in the      *)
(* environment of users, the garbage collector and the agents.             *)
(***************************************************************************)
EXTENDS StatusManager, ClusterPolicyController, Environment

vars == <<sharedVars, smVars, ctrlVars, envVars>>

TypeOK == SharedTypeOK /\ SMTypeOK /\ CtrlTypeOK /\ EnvTypeOK

Init ==
    /\ policy = [k \in Keys |-> None] /\ ap = [k \in Keys |-> None]
    /\ resetCh = <<>> /\ deleteCh = <<>> /\ updateStatusCh = <<>>
    /\ updateDesiredNumber = FALSE
    /\ scheduled = Nodes /\ running = Nodes
    /\ loaded = [n \in Nodes |-> [k \in Keys |-> 0]]
    /\ loadOk = [n \in Nodes |-> [k \in Keys |-> FALSE]]
    /\ reports = [n \in Nodes |-> <<>>] /\ elapsed = [k \in Keys |-> FALSE]
    /\ lastVersion = [k \in Keys |-> 0] /\ informerPending = {}
    /\ SMInit /\ CtrlInit /\ EnvInit

\* A step of one component leaves the other components' private state alone.
SM(A)   == A /\ UNCHANGED <<ctrlVars, envVars>>
Ctrl(A) == A /\ UNCHANGED <<smVars, envVars, nodeVars>>
Env(A)  == A /\ UNCHANGED <<smVars, ctrlVars>>

Next ==
    \/ SM(ResetStatus) \/ SM(DeleteStatus) \/ SM(UpdateStatus)
    \/ SM(Tick) \/ SM(TickSend) \/ SM(ProcessReport)
    \/ \E k \in Keys : Ctrl(Enqueue(k)) \/ Ctrl(RateLimitFire(k))
    \/ \E w \in Workers : \/ Ctrl(Sync(w)) \/ Ctrl(SendReset(w)) \/ Ctrl(WriteAp(w))
                         \/ Ctrl(SendUpdateStatus(w)) \/ Ctrl(SendDelete(w))
    \/ \E k \in Keys : \/ \E s \in UserSpecs : Env(UserCreate(k, s)) \/ Env(UserUpdate(k, s))
                       \/ Env(UserDelete(k)) \/ Env(GcCollect(k)) \/ Env(Elapse(k))
    \/ \E n \in Nodes : \/ Env(NodeJoin(n)) \/ Env(AgentStart(n)) \/ Env(LoseReport(n))
                        \/ \E leave \in BOOLEAN : Env(AgentStop(n, leave))
                        \/ \E k \in Keys : Env(AgentLoad(n, k)) \/ Env(AgentUnload(n, k))

(***************************************************************************)
(* Fairness.  The reconcile loop's select picks among its ready cases at   *)
(* random, so a case ready again and again is taken with probability one:  *)
(* its cases are strongly fair (the loop leaves them only for the tick).   *)
(* The tick's sends, the workers, the informer,                            *)
(* the rate limiter, the garbage collector, the agents and the status      *)
(* service.  Users, node churn, lost reports and the clock are not.        *)
(***************************************************************************)
Fairness ==
    /\ SF_vars(SM(ResetStatus)) /\ SF_vars(SM(DeleteStatus))
    /\ SF_vars(SM(UpdateStatus)) /\ SF_vars(SM(ProcessReport))
    /\ WF_vars(SM(Tick)) /\ WF_vars(SM(TickSend))
    /\ \A w \in Workers :
         WF_vars(Ctrl(Sync(w) \/ SendReset(w) \/ WriteAp(w) \/
                      SendUpdateStatus(w) \/ SendDelete(w)))
    /\ \A k \in Keys : /\ WF_vars(Ctrl(Enqueue(k))) /\ WF_vars(Ctrl(RateLimitFire(k)))
                       /\ WF_vars(Env(GcCollect(k)))
    /\ \A n \in Nodes : /\ WF_vars(Env(AgentStart(n)))
                        /\ \A k \in Keys : /\ WF_vars(Env(AgentLoad(n, k)))
                                         /\ WF_vars(Env(AgentUnload(n, k)))

Spec == Init /\ [][Next]_vars
FairSpec == Spec /\ Fairness

-----------------------------------------------------------------------------
(* Properties. *)

\* The AP of key k belongs to the policy now stored under k.
Synced(k) == policy[k] # None /\ LiveAp(k) /\ ap[k].owner = policy[k].uid

\* Running nodes that loaded the AP's current version successfully.
LoadedOk(k) == {n \in running : loaded[n][k] = ap[k].version /\ loadOk[n][k]}

(***************************************************************************)
(* A policy whose ArmorProfile exists reports ready only once its current  *)
(* profile is loaded: readiness counts the nodes that loaded this version  *)
(* (spec: status entries are reset on spec-significant updates).          *)
(***************************************************************************)
ReadyOnlyAfterLoad ==
    \A k \in Keys : Synced(k) /\ policy[k].ready => LoadedOk(k) # {}

(***************************************************************************)
(* Once users, nodes and the clock stop, the readiness of every policy    *)
(* with its ArmorProfile settles on whether every scheduled agent loaded   *)
(* the current profile: the reports, the ticker's recount and the         *)
(* UpdateStatus writes of the StatusManager reach a fixed point.           *)
(***************************************************************************)
StatusConverges ==
    \A k \in Keys :
      <>[](Synced(k) => (policy[k].ready <=>
                         Cardinality(LoadedOk(k)) >= Cardinality(scheduled)))

(***************************************************************************)
(* An ArmorProfile whose owner policy is gone is eventually removed: the  *)
(* controller's delete (or zombie) path clears its finalizer and the       *)
(* garbage collector deletes it, whether or not a policy of the same name  *)
(* has been created again meanwhile.                                       *)
(***************************************************************************)
ApOf(k, u) == ap[k] # None /\ ap[k].owner = u

OrphanApRemoved ==
    \A k \in Keys, u \in Uids : (Orphan(k) /\ ApOf(k, u)) ~> ~ApOf(k, u)

(***************************************************************************)
(* Every policy that exists eventually has its ArmorProfile (or is         *)
(* deleted): a sync that fails is retried until the AP is created, also    *)
(* when a zombie AP of a deleted policy of the same name is in the way,    *)
(* and after a leader change the informer's initial list re-enqueues what  *)
(* the lost workqueue held.                                                *)
(***************************************************************************)
ArmorProfileEventuallyCreated ==
    \A k \in Keys : policy[k] # None ~> (policy[k] = None \/ Synced(k))

(***************************************************************************)
(* updateAllCRStatus never blocks on UpdateStatusCh: the reconcile        *)
(* goroutine is the only reader of that channel.                           *)
(***************************************************************************)
TickNeverBlocks == smPc = "tick" => CanSend(updateStatusCh, UpdateStatusCap)

==============================================================================
