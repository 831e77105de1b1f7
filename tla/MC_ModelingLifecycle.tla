------------------------- MODULE MC_ModelingLifecycle -------------------------
(* Two agents, and three BehaviorData results: one with AppArmor and       *)
(* Seccomp behaviour, one that overlaps it on a file (other permissions    *)
(* and a prior path), a ptrace peer and a signal peer, and the empty       *)
(* result the preprocessor returns when it found no target process.       *)
EXTENDS ModelingLifecycle, TLC

CONSTANTS n1, n2

MCNodes == {n1, n2}

File(p, perms, old) == [path |-> p, owner |-> FALSE, permissions |-> perms, oldPath |-> old]

AA(files, ptraces, signals, caps, nets) ==
    [profiles |-> <<"prof">>, executions |-> <<"/bin/sh">>, files |-> files,
     capabilities |-> caps, networks |-> nets, ptraces |-> ptraces,
     signals |-> signals, unhandled |-> <<>>]

D1 == [appArmor |-> AA(<<File("/etc/a", <<"r">>, NoPath)>>,
                       <<[peer |-> "q", permissions |-> <<"read">>]>>,
                       <<[peer |-> "q", permissions |-> <<"send">>, signals |-> <<"term">>]>>,
                       <<"chown">>, <<>>),
       seccomp  |-> [syscalls |-> <<"read", "open">>]]

D2 == [appArmor |-> AA(<<File("/etc/b", <<"w">>, NoPath),
                         File("/etc/a", <<"w", "r">>, "/etc/a.old")>>,
                       <<[peer |-> "q", permissions |-> <<"trace">>]>>,
                       <<[peer |-> "q", permissions |-> <<"receive">>, signals |-> <<"kill", "term">>]>>,
                       <<>>, <<"tcp">>),
       seccomp  |-> None]

D0 == [appArmor |-> None, seccomp |-> None]

MCDatas == {D0, D1, D2}

==============================================================================
