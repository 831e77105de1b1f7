------------------------ MODULE MC_BehaviorPreprocessor ------------------------
EXTENDS BehaviorPreprocessor, TLC

CONSTANTS host, ctr, other, b1, b2

\* pid 1: the container's process; pid 2: the runtime's shim on the host;
\* pid 3: a process of another container in behaviour modeling; 4 free.
MCPids == 1..4
MCMnts == {host, ctr, other}
MCCtrProcs == 1 :> [mnt |-> ctr, conf |-> "target"]
MCHostProcs == (2 :> [mnt |-> host, conf |-> None]) @@ (3 :> [mnt |-> other, conf |-> "other"])
MCClasses == {"AppArmor", "Seccomp"}
MCBehaviours == {b1, b2}
MCEnforcer == {"AppArmor"}
====
