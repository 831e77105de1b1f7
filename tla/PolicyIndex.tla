------------------------------ MODULE PolicyIndex ------------------------------
(***************************************************************************)
(* What the policy index promises the admission webhook (spec 4.3 and the *)
(* "enforcer monotonicity on update" invariant of section 8).  For each    *)
(* policy key the index holds nothing, or the enforcer and mode of a       *)
(* version the policy had when it was indexed.  It may lag behind the      *)
(* object, but it only ever moves to the object's current enforcer and     *)
(* mode, never to one that drops an AppArmor or Seccomp enforcer, and it   *)
(* forgets a key only once the object is gone.                             *)
(***************************************************************************)
EXTENDS Enforcers

CONSTANTS Keys, PolicySpecs, None

VARIABLES policy, index

Entry(p) == [enforcer |-> p.enforcer, mode |-> p.mode]

Init ==
    /\ policy = [k \in Keys |-> None]
    /\ index = [k \in Keys |-> None]

\* Users write the object freely.
Write(k) ==
    /\ \E p \in PolicySpecs \cup {None} : policy' = [policy EXCEPT ![k] = p]
    /\ UNCHANGED index

Add(k) ==
    /\ policy[k] # None /\ index[k] = None
    /\ index' = [index EXCEPT ![k] = Entry(policy[k])]
    /\ UNCHANGED policy

Follow(k) ==
    /\ policy[k] # None /\ index[k] # None
    /\ ~DropsAppArmorOrSeccomp(index[k].enforcer, policy[k].enforcer)
    /\ index' = [index EXCEPT ![k] = Entry(policy[k])]
    /\ UNCHANGED policy

Forget(k) ==
    /\ policy[k] = None /\ index[k] # None
    /\ index' = [index EXCEPT ![k] = None]
    /\ UNCHANGED policy

Next == \E k \in Keys : Write(k) \/ Add(k) \/ Follow(k) \/ Forget(k)

Spec == Init /\ [][Next]_<<policy, index>>

==============================================================================
