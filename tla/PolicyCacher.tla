---------------------------- MODULE PolicyCacher ----------------------------
(***************************************************************************)
(* internal/policycacher: the index of VarmorClusterPolicy and VarmorPolicy *)
(* objects kept for the admission webhook.  The informer delivers add,     *)
(* update and delete notifications in order; between two deliveries the   *)
(* API object may change several times, and the informer only reports the  *)
(* latest version (a watch that coalesces, or a relist).                   *)
(***************************************************************************)
EXTENDS Enforcers, Naturals

CONSTANTS
    ClusterKeys,   \* keys of VarmorClusterPolicy objects ("name")
    NsKeys,        \* keys of VarmorPolicy objects ("namespace/name")
    Targets,       \* target workloads a policy can name
    Modes,         \* policy modes
    MaxChanges,    \* bound on the number of user writes to policy objects
    None           \* model value: no object / no cached row

ASSUME ClusterKeys \cap NsKeys = {}

Keys == ClusterKeys \cup NsKeys

PolicySpecs == [target: Targets, enforcer: EnforcerTypes, mode: Modes]

VARIABLES
    policy,        \* the API object of each key: a PolicySpec or None
    seen,          \* the version of each key last delivered by the informer
    targets,       \* ClusterPolicyTargets / PolicyTargets
    enforcer,      \* ClusterPolicyEnforcer / PolicyEnforcer
    mode,          \* ClusterPolicyMode / PolicyMode
    changes        \* number of user writes so far

vars == <<policy, seen, targets, enforcer, mode, changes>>

TypeOK ==
    /\ policy \in [Keys -> PolicySpecs \cup {None}]
    /\ seen \in [Keys -> PolicySpecs \cup {None}]
    /\ targets \in [Keys -> Targets \cup {None}]
    /\ enforcer \in [Keys -> EnforcerTypes \cup {None}]
    /\ mode \in [Keys -> Modes \cup {None}]
    /\ changes \in 0..MaxChanges

Init ==
    /\ policy = [k \in Keys |-> None]
    /\ seen = [k \in Keys |-> None]
    /\ targets = [k \in Keys |-> None]
    /\ enforcer = [k \in Keys |-> None]
    /\ mode = [k \in Keys |-> None]
    /\ changes = 0

-----------------------------------------------------------------------------
(* The user creates, edits or deletes a policy object. *)

UserWrite(k) ==
    /\ changes < MaxChanges
    /\ \E p \in PolicySpecs \cup {None} :
          /\ p # policy[k]
          /\ policy' = [policy EXCEPT ![k] = p]
    /\ changes' = changes + 1
    /\ UNCHANGED <<seen, targets, enforcer, mode>>

-----------------------------------------------------------------------------
(* The three handlers.  They are the same for both kinds of policy; only  *)
(* the maps they index differ, and the keys of the two kinds are disjoint. *)

\* add*Policy: store target, enforcer and mode of the new object.
CacheAdd(k, p) ==
    /\ targets' = [targets EXCEPT ![k] = p.target]
    /\ enforcer' = [enforcer EXCEPT ![k] = p.enforcer]
    /\ mode' = [mode EXCEPT ![k] = p.mode]

\* Mutant: the mode is taken even when the enforcer is refused.
CacheUpdateModeAlways(k, p) ==
    /\ IF enforcer[k] # None /\ RemovesActivatedEnforcer(enforcer[k], p.enforcer)
          THEN UNCHANGED enforcer
          ELSE enforcer' = [enforcer EXCEPT ![k] = p.enforcer]
    /\ mode' = [mode EXCEPT ![k] = p.mode]
    /\ UNCHANGED targets

\* Mutant: update*Policy without the guard.
CacheUpdateUnguarded(k, p) ==
    /\ enforcer' = [enforcer EXCEPT ![k] = p.enforcer]
    /\ mode' = [mode EXCEPT ![k] = p.mode]
    /\ UNCHANGED targets

\* update*Policy: refuse the whole update (enforcer and mode) when the
\* guard says an activated enforcer was removed; the target is never updated.
CacheUpdate(k, p) ==
    /\ IF enforcer[k] # None /\ RemovesActivatedEnforcer(enforcer[k], p.enforcer)
          THEN UNCHANGED <<enforcer, mode>>
          ELSE /\ enforcer' = [enforcer EXCEPT ![k] = p.enforcer]
               /\ mode' = [mode EXCEPT ![k] = p.mode]
    /\ UNCHANGED targets

\* delete*Policy: drop the three rows.
CacheDelete(k) ==
    /\ targets' = [targets EXCEPT ![k] = None]
    /\ enforcer' = [enforcer EXCEPT ![k] = None]
    /\ mode' = [mode EXCEPT ![k] = None]

\* The informer reports the change from the last delivered version to the
\* current object, and the matching handler runs.
Deliver(k, Add(_,_), Update(_,_), Delete(_)) ==
    /\ policy[k] # seen[k]
    /\ seen' = [seen EXCEPT ![k] = policy[k]]
    /\ CASE seen[k] = None   -> Add(k, policy[k])
         [] policy[k] = None -> Delete(k)
         [] OTHER            -> Update(k, policy[k])
    /\ UNCHANGED <<policy, changes>>

addVarmorClusterPolicy(k, p)    == CacheAdd(k, p)
updateVarmorClusterPolicy(k, p) == CacheUpdate(k, p)
deleteVarmorClusterPolicy(k)    == CacheDelete(k)
addVarmorPolicy(k, p)           == CacheAdd(k, p)
updateVarmorPolicy(k, p)        == CacheUpdate(k, p)
deleteVarmorPolicy(k)           == CacheDelete(k)

DeliverClusterPolicy(k) ==
    Deliver(k, addVarmorClusterPolicy, updateVarmorClusterPolicy, deleteVarmorClusterPolicy)

DeliverPolicy(k) ==
    Deliver(k, addVarmorPolicy, updateVarmorPolicy, deleteVarmorPolicy)

Next ==
    \/ \E k \in Keys : UserWrite(k)
    \/ \E k \in ClusterKeys : DeliverClusterPolicy(k)
    \/ \E k \in NsKeys : DeliverPolicy(k)

Spec == Init /\ [][Next]_vars

-----------------------------------------------------------------------------
(* Properties *)

(* The cacher implements the PolicyIndex promise (spec 4.3, section 8):   *)
(* the (enforcer, mode) pair the webhook reads for a key is nothing, or    *)
(* the pair of the object's version at the step it changed; it changes    *)
(* only by add, by an update that drops no AppArmor/Seccomp bit, or by the *)
(* delete of the object.  update*Policy must refuse enforcer and mode      *)
(* together, and add/delete must take or drop the whole row.              *)
CachedIndex ==
    [k \in Keys |-> IF enforcer[k] = None THEN None
                    ELSE [enforcer |-> enforcer[k], mode |-> mode[k]]]

Abstract == INSTANCE PolicyIndex WITH index <- CachedIndex

IndexRefinement == Abstract!Spec

==============================================================================
