---------------------------- MODULE MC_VarmorSystem ----------------------------
(* Instances of VarmorSystem for TLC: one or two policy names, two nodes,  *)
(* one worker (the workqueue serialises a key), real channel capacities.   *)
EXTENDS VarmorSystem, TLC

CONSTANTS k1, k2, n1, n2, t1, t2, w1

MCKeys1 == {k1}
MCKeys2 == {k1, k2}
MCNodes1 == {n1}
MCNodes == {n1, n2}
MCTargets == {t1, t2}
MCWorkers == {w1}

PSpec(t, e, m, wf) == [target |-> t, enforcer |-> e, mode |-> m, wellFormed |-> wf]

\* An AppArmor policy, its BPF-only rewrite (forbidden: drops AppArmor; as
\* a new policy, the BPF generator may fail), a
\* change of target (forbidden), a switch to BehaviorModeling, an
\* AppArmor+BPF policy (no template: GenerateProfile error) and a policy
\* missing its mode options.
MCSafetySpecs ==
    { PSpec(t1, {AppArmor}, "AlwaysAllow", TRUE),
      PSpec(t1, {BPF}, "RuntimeDefault", TRUE),
      PSpec(t2, {AppArmor}, "AlwaysAllow", TRUE),
      PSpec(t1, {AppArmor}, "BehaviorModeling", TRUE),
      PSpec(t1, {AppArmor, BPF}, "RuntimeDefault", TRUE),
      PSpec(t1, {AppArmor}, "EnhanceProtect", FALSE) }

\* Policies that only change their profile outside BehaviorModeling.
MCPlainSpecs ==
    { PSpec(t1, {AppArmor}, "AlwaysAllow", TRUE),
      PSpec(t1, {AppArmor}, "RuntimeDefault", TRUE) }

\* A policy that goes into BehaviorModeling.
MCModelingSpecs ==
    { PSpec(t1, {AppArmor}, "AlwaysAllow", TRUE),
      PSpec(t1, {AppArmor}, "BehaviorModeling", TRUE) }

MCModes == {"AlwaysAllow", "RuntimeDefault", "EnhanceProtect", "BehaviorModeling"}

==============================================================================
