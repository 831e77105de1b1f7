------------------------ MODULE ClusterPolicyController ------------------------
(***************************************************************************)
(* internal/policy/clusterpolicy_controller.go.  Informer handlers put    *)
(* keys on a rate-limited, de-duplicating workqueue; workers take a key,   *)
(* run syncClusterPolicy and hand the result to handleErr.  A sync runs    *)
(* atomically up to its first blocking point: a send on a StatusManager    *)
(* channel, or the ArmorProfile write that follows such a send or uses the *)
(* object read at the start of the sync.                                   *)
(***************************************************************************)
EXTENDS ProfileGen

CONSTANTS
    Workers,     \* worker goroutines started by Run(workers, ...)
    MaxRetries   \* maxRetries of handleErr

BM == "BehaviorModeling"

VARIABLES
    queue,           \* workqueue: keys waiting, in order
    dirty,           \* workqueue: keys added and not yet taken
    processing,      \* workqueue: keys a worker holds
    delayed,         \* keys waiting for the rate limiter (AddRateLimited)
    requeues,        \* NumRequeues per key
    worker           \* per worker: where its sync is blocked and what it holds

ctrlVars == <<queue, dirty, processing, delayed, requeues,
              worker>>

\* The API objects and StatusManager channels a sync may change.
apiVars == <<policy, ap, resetCh, deleteCh, updateStatusCh, updateDesiredNumber,
             lastVersion, elapsed>>

Idle == [pc |-> "idle", key |-> None, snap |-> None, newSpec |-> None,
         uid |-> None]

WorkerState == [pc: {"idle", "sendReset", "writeAp", "sendUpdateStatus",
                     "sendDelete"},
                key: Keys \cup {None}, snap: ApObject \cup {None},
                newSpec: ApSpec \cup {None}, uid: Uids \cup {None}]

CtrlTypeOK ==
    /\ queue \in Seq(Keys) /\ dirty \subseteq Keys /\ processing \subseteq Keys
    /\ delayed \subseteq Keys /\ requeues \in [Keys -> 0..MaxRetries]
    /\ worker \in [Workers -> WorkerState]

CtrlInit ==
    /\ queue = <<>> /\ dirty = {} /\ processing = {}
    /\ delayed = {} /\ requeues = [k \in Keys |-> 0] /\ worker = [w \in Workers |-> Idle]

-----------------------------------------------------------------------------
(* workqueue.Type: Add and Done, as client-go implements them. *)

\* The queue after Add(k): nothing if k is dirty; queued unless it is held.
AddedQueue(k) == IF k \in dirty \/ k \in processing THEN queue ELSE Append(queue, k)

\* enqueueClusterPolicy from the add, update and delete handlers.  The
\* update handler enqueues only events that change the spec and leave the
\* status alone, i.e. user writes: status writes never reach the queue.
Enqueue(k) ==
    /\ k \in informerPending
    /\ informerPending' = informerPending \ {k}
    /\ queue' = AddedQueue(k) /\ dirty' = dirty \cup {k}
    /\ UNCHANGED <<processing, delayed, requeues, worker, apiVars>>

\* The rate limiter's delay for an AddRateLimited key runs out.
RateLimitFire(k) ==
    /\ k \in delayed
    /\ delayed' = delayed \ {k}
    /\ queue' = AddedQueue(k) /\ dirty' = dirty \cup {k}
    /\ UNCHANGED <<informerPending, processing, requeues, worker, apiVars>>

\* Mutant: handleErr without its maxRetries check.
FinishNoLimit(w, k, err, wq) ==
    /\ requeues' = [requeues EXCEPT ![k] = IF err THEN @ + 1 ELSE 0]
    /\ delayed' = IF err THEN delayed \cup {k} ELSE delayed
    /\ processing' = wq.processing \ {k}
    /\ queue' = IF k \in wq.dirty THEN Append(wq.queue, k) ELSE wq.queue
    /\ dirty' = wq.dirty
    /\ worker' = [worker EXCEPT ![w] = Idle]
    /\ UNCHANGED informerPending

(***************************************************************************)
(* The end of processNextWorkItem: handleErr(err, key), then Done(key).    *)
(* handleErr forgets the key on success; on error it is re-added rate-     *)
(* limited while NumRequeues < maxRetries, and dropped (forgotten) after.  *)
(***************************************************************************)
Finish(w, k, err, wq) ==
    /\ requeues' = [requeues EXCEPT ![k] =
                      IF err /\ requeues[k] < MaxRetries THEN @ + 1 ELSE 0]
    /\ delayed' = IF err /\ requeues[k] < MaxRetries THEN delayed \cup {k} ELSE delayed
    /\ processing' = wq.processing \ {k}
    /\ queue' = IF k \in wq.dirty THEN Append(wq.queue, k) ELSE wq.queue
    /\ dirty' = wq.dirty
    /\ worker' = [worker EXCEPT ![w] = Idle]
    /\ UNCHANGED informerPending

\* A worker moves to a blocking point of its sync, holding its key.
Block(w, pc, k, snap, newSpec, uid, wq) ==
    /\ worker' = [worker EXCEPT ![w] = [pc |-> pc, key |-> k, snap |-> snap,
                                         newSpec |-> newSpec, uid |-> uid]]
    /\ queue' = wq.queue /\ dirty' = wq.dirty /\ processing' = wq.processing
    /\ UNCHANGED <<informerPending, delayed, requeues>>

\* The workqueue as it is now, and as Get(k) leaves it.
WQNow == [queue |-> queue, dirty |-> dirty, processing |-> processing]
WQGot(k) == [queue |-> Tail(queue), dirty |-> dirty \ {k},
             processing |-> processing \cup {k}]

\* UpdateVarmorClusterPolicyStatus: re-reads the policy on conflict and
\* gives up without error if it is gone.  phase Unchanged keeps the phase.
SetStatus(k, phase, ready) ==
    policy' = [policy EXCEPT ![k].phase = IF phase = Unchanged THEN @ ELSE phase,
                             ![k].ready = ready]

\* A sync that ends with a status write (when it succeeds) and err = failed.
EndWithStatus(w, k, phase, ok, wq) ==
    /\ IF ok THEN SetStatus(k, phase, FALSE) ELSE UNCHANGED policy
    /\ Finish(w, k, ~ok, wq)

-----------------------------------------------------------------------------
(***************************************************************************)
(* handleAddVarmorClusterPolicy(vcp), after any zombie AP was cleared to  *)
(* apNow.  ignoreAdd and NewArmorProfile errors set phase Error and end    *)
(* the sync (with the status write's error).  Otherwise: phase Pending,    *)
(* UpdateDesiredNumber is raised and the AP is created; AlreadyExists or   *)
(* any other Create error is returned.                                     *)
(***************************************************************************)
HandleAdd(w, k, apNow, wq) ==
    \E stOk, createOk, bpfOk \in ApiOutcomes :
    LET p == policy[k]
        spec == NewArmorProfile(p.spec, FALSE, bpfOk)
        created == [owner |-> p.uid, finalizer |-> TRUE, deleting |-> FALSE,
                    spec |-> spec, version |-> lastVersion[k] + 1,
                    current |-> 0, desired |-> 0, failing |-> {}]
    IN
       CASE ~p.spec.wellFormed \/ spec = GenerateError
              -> /\ EndWithStatus(w, k, "Error", stOk, wq)
                 /\ ap' = [ap EXCEPT ![k] = apNow]
                 /\ UNCHANGED <<updateDesiredNumber, elapsed, lastVersion>>
         [] ~stOk
              -> /\ Finish(w, k, TRUE, wq)
                 /\ ap' = [ap EXCEPT ![k] = apNow]
                 /\ UNCHANGED <<policy, updateDesiredNumber, elapsed, lastVersion>>
         [] createOk /\ apNow = None
              -> /\ SetStatus(k, "Pending", FALSE)
                 /\ updateDesiredNumber' = TRUE
                 /\ ap' = [ap EXCEPT ![k] = created]
                 /\ lastVersion' = [lastVersion EXCEPT ![k] = @ + 1]
                 /\ elapsed' = [elapsed EXCEPT ![k] = FALSE]
                 /\ Finish(w, k, FALSE, wq)
         [] OTHER
              -> /\ SetStatus(k, "Pending", FALSE)
                 /\ updateDesiredNumber' = TRUE
                 /\ ap' = [ap EXCEPT ![k] = apNow]
                 /\ UNCHANGED <<lastVersion, elapsed>>
                 /\ Finish(w, k, TRUE, wq)

(***************************************************************************)
(* ignoreUpdate: Forbidden (phase Unchanged) when the target changes, when *)
(* a policy still Modeling leaves BehaviorModeling or changes enforcer,    *)
(* and when an activated AppArmor/Seccomp enforcer is removed.             *)
(***************************************************************************)
ignoreUpdate(p, a) ==
    \/ p.spec.target # a.spec.target
    \/ p.spec.mode # BM /\ p.phase = "Modeling"
    \/ p.spec.mode = BM /\ p.phase = "Modeling" /\ p.spec.enforcer # a.spec.profile.enforcer
    \/ RemovesActivatedEnforcer(a.spec.profile.enforcer, p.spec.enforcer)

\* The blocking point after ResetCh, or the first one without it: the AP
\* write when the new spec differs from the one read, else UpdateStatusCh.
AfterReset(snap, newSpec) ==
    IF newSpec # snap.spec THEN "writeAp" ELSE "sendUpdateStatus"

(***************************************************************************)
(* handleUpdateVarmorClusterPolicy(vcp, oldAp) up to its first blocking    *)
(* point.  Phase Pending; complete = BehaviorModeling and the modeling     *)
(* duration has passed; the profile is regenerated (error: phase Error).   *)
(* An incomplete BehaviorModeling policy sets behaviorModeling.enable,     *)
(* raises UpdateDesiredNumber and sends ResetCh.  The missing-options     *)
(* checks of ignoreUpdate (phase Error) are wellFormed.                    *)
(***************************************************************************)
HandleUpdate(w, k, wq) ==
    \E stOk, st2Ok, bpfOk \in ApiOutcomes :
    LET p == policy[k]
        a == ap[k]
        complete == p.spec.mode = BM /\ elapsed[k]
        prof == GenerateProfile(p.spec, complete, FALSE, bpfOk)
        modeling == p.spec.mode = BM /\ ~complete
        newSpec == [a.spec EXCEPT !.profile = prof,
                                  !.bmEnable = IF modeling THEN TRUE ELSE @]
    IN /\ UNCHANGED <<ap, lastVersion, elapsed>>
       /\ CASE ignoreUpdate(p, a)
                 -> /\ EndWithStatus(w, k, Unchanged, stOk, wq)
                    /\ UNCHANGED updateDesiredNumber
            [] ~p.spec.wellFormed
                 -> /\ EndWithStatus(w, k, "Error", stOk, wq)
                    /\ UNCHANGED updateDesiredNumber
            [] ~stOk
                 -> /\ Finish(w, k, TRUE, wq)
                    /\ UNCHANGED <<policy, updateDesiredNumber>>
            [] prof = GenerateError
                 -> /\ SetStatus(k, IF st2Ok THEN "Error" ELSE "Pending", FALSE)
                    /\ Finish(w, k, ~st2Ok, wq)
                    /\ UNCHANGED updateDesiredNumber
            [] OTHER
                 -> /\ SetStatus(k, "Pending", FALSE)
                    /\ updateDesiredNumber' = (updateDesiredNumber \/ modeling)
                    /\ Block(w, IF modeling THEN "sendReset" ELSE AfterReset(a, newSpec),
                             k, a, newSpec, p.uid, wq)

(***************************************************************************)
(* handleDeleteVarmorClusterPolicy(name) up to the DeleteCh send.  A Get   *)
(* error other than NotFound is returned, whether or not the AP exists.    *)
(* A found AP gets its finalizers removed; that error is only logged.     *)
(***************************************************************************)
HandleDelete(w, k, wq) ==
    \E getOk, rmOk \in ApiOutcomes :
       /\ UNCHANGED <<policy, updateDesiredNumber, lastVersion, elapsed>>
       /\ IF ~getOk
          THEN /\ Finish(w, k, TRUE, wq)
               /\ UNCHANGED ap
          ELSE /\ ap' = IF ap[k] # None /\ rmOk
                        THEN [ap EXCEPT ![k] = WithoutFinalizers(ap[k])]
                        ELSE ap
               /\ Block(w, "sendDelete", k, None, None, None, wq)

(***************************************************************************)
(* processNextWorkItem: Get a key, then syncClusterPolicy.  A failed Get   *)
(* is returned.  No policy: delete.  An AP the policy owns: update.  An AP *)
(* it does not own (zombie of an earlier policy of that name): remove its *)
(* finalizers (error returned), then add.  No AP: add.                    *)
(***************************************************************************)
Sync(w) ==
    /\ worker[w].pc = "idle" /\ queue # <<>>
    /\ LET k == Head(queue)
           wq == WQGot(k)
           zombie == policy[k] # None /\ ap[k] # None /\ ap[k].owner # policy[k].uid
       IN \E getOk, rmOk \in ApiOutcomes :
          CASE ~getOk \/ (zombie /\ ~rmOk)
                 -> /\ Finish(w, k, TRUE, wq)
                    /\ UNCHANGED <<policy, ap, updateDesiredNumber, lastVersion, elapsed>>
            [] policy[k] = None
                 -> HandleDelete(w, k, wq)
            [] ap[k] # None /\ ~zombie
                 -> HandleUpdate(w, k, wq)
            [] OTHER
                 -> HandleAdd(w, k, IF zombie THEN WithoutFinalizers(ap[k]) ELSE None, wq)
    /\ UNCHANGED <<resetCh, deleteCh, updateStatusCh>>

-----------------------------------------------------------------------------
(* The blocking points of a sync. *)

\* c.statusManager.ResetCh <- statusKey (line 474).
SendReset(w) ==
    LET s == worker[w] IN
    /\ s.pc = "sendReset" /\ CanSend(resetCh, ResetCap)
    /\ resetCh' = Append(resetCh, s.key)
    /\ worker' = [worker EXCEPT ![w].pc = AfterReset(s.snap, s.newSpec)]
    /\ UNCHANGED <<informerPending, queue, dirty, processing, delayed, requeues,
                   policy, ap, deleteCh, updateStatusCh, updateDesiredNumber,
                   lastVersion, elapsed>>

(***************************************************************************)
(* The spec changed: the AP status is reset (current 0, no conditions)    *)
(* with UpdateStatus on the object read at the start of the sync, a       *)
(* conflict if it changed since; then the AP is updated to the new spec   *)
(* with the policy as owner.  Each write's error is returned.              *)
(***************************************************************************)
WriteAp(w) ==
    LET s == worker[w]
        k == s.key
        reset == [s.snap EXCEPT !.current = 0, !.failing = {}]
        updated == [reset EXCEPT !.spec = s.newSpec, !.owner = s.uid,
                                 !.version = lastVersion[k] + 1]
    IN /\ s.pc = "writeAp"
       /\ \E stOk, upOk \in ApiOutcomes :
          CASE ap[k] # s.snap \/ ~stOk
                 -> /\ Finish(w, k, TRUE, WQNow)
                    /\ UNCHANGED <<ap, lastVersion>>
            [] ~upOk
                 -> /\ Finish(w, k, TRUE, WQNow)
                    /\ ap' = [ap EXCEPT ![k] = reset]
                    /\ UNCHANGED lastVersion
            [] OTHER
                 -> /\ Finish(w, k, FALSE, WQNow)
                    /\ ap' = [ap EXCEPT ![k] = updated]
                    /\ lastVersion' = [lastVersion EXCEPT ![k] = @ + 1]
       /\ UNCHANGED <<policy, resetCh, deleteCh, updateStatusCh,
                      updateDesiredNumber, elapsed>>

\* c.statusManager.UpdateStatusCh <- statusKey (line 544), then return nil.
SendUpdateStatus(w) ==
    /\ worker[w].pc = "sendUpdateStatus" /\ CanSend(updateStatusCh, UpdateStatusCap)
    /\ updateStatusCh' = Append(updateStatusCh, worker[w].key)
    /\ Finish(w, worker[w].key, FALSE, WQNow)
    /\ UNCHANGED <<policy, ap, resetCh, deleteCh, updateDesiredNumber,
                   lastVersion, elapsed>>

\* c.statusManager.DeleteCh <- name (line 185), then return nil.
SendDelete(w) ==
    /\ worker[w].pc = "sendDelete" /\ CanSend(deleteCh, DeleteCap)
    /\ deleteCh' = Append(deleteCh, worker[w].key)
    /\ Finish(w, worker[w].key, FALSE, WQNow)
    /\ UNCHANGED <<policy, ap, resetCh, updateStatusCh, updateDesiredNumber,
                   lastVersion, elapsed>>

\* Mutant: the handlers are registered after the initial list was missed.
CtrlRestartNoRelist ==
    /\ queue' = <<>> /\ dirty' = {} /\ processing' = {} /\ delayed' = {}
    /\ requeues' = [k \in Keys |-> 0] /\ worker' = [w \in Workers |-> Idle]
    /\ informerPending' = {}

\* Run() of a newly elected manager: a new workqueue and idle workers; the
\* informer's initial list delivers an add event for every existing policy.
CtrlRestart ==
    /\ queue' = <<>> /\ dirty' = {} /\ processing' = {} /\ delayed' = {}
    /\ requeues' = [k \in Keys |-> 0] /\ worker' = [w \in Workers |-> Idle]
    /\ informerPending' = {k \in Keys : policy[k] # None}

CtrlNext ==
    \/ \E k \in Keys : Enqueue(k) \/ RateLimitFire(k)
    \/ \E w \in Workers : \/ Sync(w) \/ SendReset(w) \/ WriteAp(w)
                          \/ SendUpdateStatus(w) \/ SendDelete(w)

==============================================================================
