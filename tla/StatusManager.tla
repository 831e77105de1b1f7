---------------------------- MODULE StatusManager ----------------------------
(***************************************************************************)
(* internal/status/api/v1/manager.go: the StatusManager.  One goroutine,   *)
(* reconcileStatus, owns the PolicyStatuses cache and selects among        *)
(* ResetCh, DeleteCh, UpdateStatusCh and the ticker.  The ticker case      *)
(* (updateAllCRStatus) recounts every entry and then sends each key to     *)
(* UpdateStatusCh, the channel this same goroutine drains.                  *)
(* Only cluster-scope keys are modelled here (the cluster-scope branch of  *)
(* the UpdateStatusCh case).                                               *)
(***************************************************************************)
EXTENDS VarmorState

Ready      == "ArmorProfileReady"   \* varmortypes.ArmorProfileReady
LoadFailed == "LoadFailed"          \* any failure message of an agent
NoMsg      == "NoMsg"               \* no entry for the node in NodeMessages

Messages == {Ready, LoadFailed, NoMsg}

PolicyStatus == [successed: Nat, failed: Nat, msgs: [Nodes -> Messages]]

VARIABLES
    policyStatuses,  \* m.PolicyStatuses: [Keys -> PolicyStatus \cup {None}]
    desiredNumber,   \* m.desiredNumber
    smPc,            \* "loop": in the select; "tick": inside updateAllCRStatus
    tickTodo         \* keys updateAllCRStatus has still to send

smVars == <<policyStatuses, desiredNumber, smPc, tickTodo>>

SMTypeOK ==
    /\ policyStatuses \in [Keys -> PolicyStatus \cup {None}]
    /\ desiredNumber \in 0..Cardinality(Nodes)
    /\ smPc \in {"loop", "tick"}
    /\ tickTodo \subseteq Keys

EmptyStatus == [successed |-> 0, failed |-> 0, msgs |-> [n \in Nodes |-> NoMsg]]

\* The nodes that reported success / failure.
ReadyNodes(ps)  == {n \in Nodes : ps.msgs[n] = Ready}
FailedNodes(ps) == {n \in Nodes : ps.msgs[n] = LoadFailed}

\* retrieveDesiredNumber: the agent DaemonSet's desiredNumberScheduled.
retrieveDesiredNumber == Cardinality(scheduled)

\* retrieveNodeNameList: the nodes whose agent pod is Running.
retrieveNodeNameList == running

SMInit ==
    /\ policyStatuses = [k \in Keys |-> None]
    \* Run(): retrieveDesiredNumber before the loop; on error it stays 0.
    /\ desiredNumber \in {retrieveDesiredNumber} \cup
                         (IF ApiFailures THEN {0} ELSE {})
    /\ smPc = "loop"
    /\ tickTodo = {}

-----------------------------------------------------------------------------
(* The cases of reconcileStatus. *)

\* case <-ResetCh: zero the entry if there is one.
ResetStatus ==
    /\ smPc = "loop" /\ resetCh # <<>>
    /\ LET k == Head(resetCh) IN
         policyStatuses' = IF policyStatuses[k] = None THEN policyStatuses
                           ELSE [policyStatuses EXCEPT ![k] = EmptyStatus]
    /\ resetCh' = Tail(resetCh)
    /\ UNCHANGED <<desiredNumber, smPc, tickTodo, policy, ap, deleteCh,
                   updateStatusCh, updateDesiredNumber, agentVars, reports>>

\* case <-DeleteCh: drop the entry.
DeleteStatus ==
    /\ smPc = "loop" /\ deleteCh # <<>>
    /\ policyStatuses' = [policyStatuses EXCEPT ![Head(deleteCh)] = None]
    /\ deleteCh' = Tail(deleteCh)
    /\ UNCHANGED <<desiredNumber, smPc, tickTodo, policy, ap, resetCh,
                   updateStatusCh, updateDesiredNumber, agentVars, reports>>

\* updateArmorProfileStatus: the AP status the cache entry implies.
ApStatusFrom(a, ps, dn) ==
    [a EXCEPT !.current = ps.successed, !.desired = dn,
              !.failing = {n \in Nodes : ps.msgs[n] \notin {Ready, NoMsg}}]

\* Mutant: ready only when more nodes than desired loaded the profile.
ReadinessStrict(ps, dn) == ps.successed > dn

\* ready := SuccessedNumber >= desiredNumber (lines 407-410).
Readiness(ps, dn) == ps.successed >= dn

(***************************************************************************)
(* case <-UpdateStatusCh, cluster scope.  The key must be cached and both  *)
(* objects found.  If UpdateDesiredNumber is set the desired number is     *)
(* re-read first.  Then the AP status is written (skipped when equal) and, *)
(* only if that did not fail, the policy's ready and phase: Error if any   *)
(* node failed, else Protecting; ready iff successed >= desiredNumber.     *)
(***************************************************************************)
UpdateStatus ==
    /\ smPc = "loop" /\ updateStatusCh # <<>>
    /\ updateStatusCh' = Tail(updateStatusCh)
    /\ LET k == Head(updateStatusCh)
           ps == policyStatuses[k]
       IN IF ps = None \/ ap[k] = None \/ policy[k] = None
          THEN UNCHANGED <<policy, ap, desiredNumber, updateDesiredNumber>>
          ELSE \E getOk, dnOk, apOk, vpOk \in ApiOutcomes :
            LET refresh == updateDesiredNumber /\ dnOk
                dn      == IF refresh THEN retrieveDesiredNumber ELSE desiredNumber
                newAp   == ApStatusFrom(ap[k], ps, dn)
                phase   == IF ps.failed > 0 THEN "Error" ELSE "Protecting"
                ready   == Readiness(ps, dn)
                apDone  == newAp = ap[k] \/ apOk
                vpSame  == policy[k].ready = ready /\ policy[k].phase = phase
            IN IF ~getOk
               THEN UNCHANGED <<policy, ap, desiredNumber, updateDesiredNumber>>
               ELSE /\ desiredNumber' = dn
                    /\ updateDesiredNumber' = (updateDesiredNumber /\ ~refresh)
                    /\ ap' = IF apOk THEN [ap EXCEPT ![k] = newAp] ELSE ap
                    /\ policy' = IF apDone /\ ~vpSame /\ vpOk
                                 THEN [policy EXCEPT ![k].ready = ready,
                                                     ![k].phase = phase]
                                 ELSE policy
    /\ UNCHANGED <<policyStatuses, smPc, tickTodo, resetCh, deleteCh,
                   agentVars, reports>>

\* updateAllCRStatus recount of one entry: forget offline nodes, recount.
Recount(ps, nodes) ==
    LET msgs == [n \in Nodes |-> IF n \in nodes THEN ps.msgs[n] ELSE NoMsg]
    IN [successed |-> Cardinality({n \in nodes : msgs[n] = Ready}),
        failed    |-> Cardinality({n \in nodes : msgs[n] = LoadFailed}),
        msgs      |-> msgs]

(***************************************************************************)
(* case <-ticker.C: updateAllCRStatus.  The ticker period (minutes) is far *)
(* longer than draining UpdateStatusCh takes, so a tick finds it empty.     *)
(* Nothing is done when the cache is empty;                                *)
(* retrieveDesiredNumber, then retrieveNodeNameList (Running agent pods),  *)
(* each returning early on error; then every entry is recounted and its    *)
(* key queued for sending.                                                 *)
(***************************************************************************)
Tick ==
    /\ smPc = "loop" /\ updateStatusCh = <<>>
    /\ IF \A k \in Keys : policyStatuses[k] = None
       THEN UNCHANGED <<policyStatuses, desiredNumber, updateDesiredNumber,
                       tickTodo, smPc>>
       ELSE \E dnOk, listOk \in ApiOutcomes :
         /\ desiredNumber' = IF dnOk THEN retrieveDesiredNumber ELSE desiredNumber
         /\ updateDesiredNumber' = (updateDesiredNumber /\ ~dnOk)
         /\ IF dnOk /\ listOk
            THEN /\ policyStatuses' = [k \in Keys |->
                        IF policyStatuses[k] = None THEN None
                        ELSE Recount(policyStatuses[k], retrieveNodeNameList)]
                 /\ tickTodo' = {k \in Keys : policyStatuses[k] # None}
                 /\ smPc' = "tick"
            ELSE UNCHANGED <<policyStatuses, tickTodo, smPc>>
    /\ UNCHANGED <<policy, ap, resetCh, deleteCh, updateStatusCh,
                   agentVars, reports>>

\* The loop of updateAllCRStatus: m.UpdateStatusCh <- statusKey, in map order.
\* The send blocks while the channel is full; only this goroutine drains it.
TickSend ==
    /\ smPc = "tick"
    /\ CanSend(updateStatusCh, UpdateStatusCap)
    /\ \E k \in tickTodo :
         /\ updateStatusCh' = Append(updateStatusCh, k)
         /\ tickTodo' = tickTodo \ {k}
         /\ smPc' = IF tickTodo' = {} THEN "loop" ELSE "tick"
    /\ UNCHANGED <<policyStatuses, desiredNumber, policy, ap, resetCh,
                   deleteCh, updateDesiredNumber, agentVars, reports>>

(***************************************************************************)
(* rebuildPolicyStatuses, at start-up: one entry per existing AP.  A node  *)
(* of the Running list is failed if the AP's conditions name it, and       *)
(* ready otherwise.  A failed namespace or node list leaves the cache      *)
(* empty.                                                                  *)
(***************************************************************************)
RebuiltStatus(a, nodes) ==
    LET msgs == [n \in Nodes |-> CASE n \notin nodes -> NoMsg
                                   [] n \in a.failing -> LoadFailed
                                   [] OTHER           -> Ready]
    IN [successed |-> Cardinality({n \in nodes : msgs[n] = Ready}),
        failed    |-> Cardinality({n \in nodes : msgs[n] = LoadFailed}),
        msgs      |-> msgs]

rebuildPolicyStatuses(ok) ==
    [k \in Keys |-> IF ok /\ ap[k] # None
                    THEN RebuiltStatus(ap[k], retrieveNodeNameList) ELSE None]

\* Run() of a newly elected manager: a fresh StatusManager (desiredNumber 0)
\* retrieves the desired number, rebuilds the cache and enters the loop.
SMRestart ==
    \E dnOk, rbOk \in ApiOutcomes :
       /\ desiredNumber' = IF dnOk THEN retrieveDesiredNumber ELSE 0
       /\ policyStatuses' = rebuildPolicyStatuses(rbOk)
       /\ smPc' = "loop" /\ tickTodo' = {}

(***************************************************************************)
(* A status report from an agent (/api/v1/status, handled outside src/):  *)
(* the node's message becomes ArmorProfileReady or the failure message,   *)
(* creating the entry if there is none, and the counters are recounted.    *)
(* It runs on the goroutine that owns the cache.                           *)
(***************************************************************************)
ProcessReport ==
    /\ smPc = "loop"
    /\ \E n \in Nodes :
         /\ reports[n] # <<>>
         /\ LET r    == Head(reports[n])
                old  == IF policyStatuses[r.key] = None THEN EmptyStatus
                        ELSE policyStatuses[r.key]
                msgs == [old.msgs EXCEPT ![n] = IF r.ok THEN Ready ELSE LoadFailed]
                ps   == [msgs |-> msgs, successed |-> 0, failed |-> 0]
            IN /\ policyStatuses' = [policyStatuses EXCEPT ![r.key] =
                     [msgs |-> msgs, successed |-> Cardinality(ReadyNodes(ps)),
                      failed |-> Cardinality(FailedNodes(ps))]]
               /\ reports' = [reports EXCEPT ![n] = Tail(@)]
    /\ UNCHANGED <<desiredNumber, smPc, tickTodo, policy, ap, resetCh,
                   deleteCh, updateStatusCh, updateDesiredNumber, agentVars>>

SMNext == ResetStatus \/ DeleteStatus \/ UpdateStatus \/ Tick \/ TickSend \/
          ProcessReport

==============================================================================
