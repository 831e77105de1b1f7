----------------------------- MODULE VarmorFailover -----------------------------
(***************************************************************************)
(* The cluster-policy pipeline across a change of leader.  The manager     *)
(* process that runs the controller and the StatusManager is replaced:     *)
(* its workqueue, its channels, its in-flight syncs and its PolicyStatuses *)
(* cache are lost.  The new leader runs StatusManager.Run (desired number, *)
(* rebuildPolicyStatuses from the APs) and ClusterPolicyController.Run,    *)
(* whose informer lists the policies that exist now.  API objects, agents  *)
(* and the reports agents are still posting survive.                       *)
(***************************************************************************)
EXTENDS VarmorSystem

CONSTANT MaxRestarts   \* bound on leader changes

VARIABLE restarts      \* leader changes so far

fvars == <<vars, restarts>>

FailoverTypeOK == TypeOK /\ restarts \in 0..MaxRestarts

Restart ==
    /\ restarts < MaxRestarts
    /\ SMRestart
    /\ CtrlRestart
    /\ resetCh' = <<>> /\ deleteCh' = <<>> /\ updateStatusCh' = <<>>
    /\ updateDesiredNumber' = FALSE
    /\ restarts' = restarts + 1
    /\ UNCHANGED <<policy, ap, scheduled, running, loaded, loadOk, reports,
                   elapsed, lastVersion, envVars>>

FailoverInit == Init /\ restarts = 0

FailoverNext == (Next /\ UNCHANGED restarts) \/ Restart

\* The leader change itself is a fault: it gets no fairness.
FailoverSpec == FailoverInit /\ [][FailoverNext]_fvars /\ Fairness

==============================================================================
