-------------------------- MODULE MC_PolicyCacher --------------------------
EXTENDS PolicyCacher, TLC

CONSTANTS c1, n1, t1

\* One cluster policy and one namespaced policy, one target, two modes.
MCClusterKeys == {c1}
MCNsKeys == {n1}
MCTargets == {t1}
MCModes == {"AlwaysAllow", "BehaviorModeling"}

\* Enough writes to create a policy, change its enforcer twice and delete it.
MCMaxChanges == 4

==============================================================================
