------------------------- MODULE BehaviorPreprocessor -------------------------
(***************************************************************************)
(* internal/behavior/preprocessor: the agent-side pass that turns one      *)
(* node's BPF trace and audit records into the BehaviorData of a target    *)
(* container (spec 4.1).  While the modeling duration runs, the kernel     *)
(* (modelled from the spec) forks, execs and moves processes between      *)
(* mount namespaces, and writes a trace event for each fork and exec.     *)
(* Confined processes write audit lines.  Then Process runs:              *)
(* gatherTargetPIDs folds the trace into targetPIDs in one pass, and       *)
(* processAuditRecords keeps the lines of those pids whose class the      *)
(* enforcer selects.  Reading either file may fail.  Event parsing and    *)
(* the per-event normalisation are not under src/: an audit line is a     *)
(* (class, behaviour) pair.                                               *)
(***************************************************************************)
EXTENDS SequencesExt, Naturals

CONSTANTS
    Pids,         \* process ids of the node
    Mnts,         \* mount namespaces
    CtrMnt,       \* the target container's mount namespace
    CtrProcs,     \* the container's processes when modeling started
    HostProcs,    \* the other processes of the node then
    Classes,      \* audit line classes: "AppArmor", "Seccomp"
    Behaviours,   \* what an audit line records
    Enforcer,     \* the classes the policy's enforcer contains
    MaxEvents,    \* bound on trace events
    MaxLines,     \* bound on audit lines
    PidReuse,     \* the kernel may hand out a pid that was used before
    IoFaults,     \* reads of the record files may fail
    None

\* A process: its mount namespace and the profile that confines it:
\* "target", "other" (another container's modeling profile), or None.
Procs == [mnt: Mnts, conf: {"target", "other", None}]

VARIABLES
    proc,        \* pid -> Procs \cup {None}
    used,        \* pids handed out so far
    trace,       \* the BPF record file: [type, parent, child, mnt] events
    audit,       \* the audit record file: [pid, class, beh, target (ghost)]
    modeling,    \* the modeling duration is still running
    pc,          \* where Process is
    targetPIDs,  \* p.targetPIDs
    pos,         \* next record of the file being read
    result,      \* the DynamicResult: set of <<class, behaviour>>
    status,      \* None, "default" (defaultData) or "succeeded"
    ioFailed     \* ghost: a read of a record file failed

vars == <<proc, used, trace, audit, modeling, pc, targetPIDs, pos, result,
          status, ioFailed>>

PCs == {"idle", "openTrace", "gather", "gathered", "openAudit", "audit",
        "finish", "done"}

TypeOK ==
    /\ proc \in [Pids -> Procs \cup {None}]
    /\ used \subseteq Pids
    /\ trace \in Seq([type: {"Fork", "Exec"}, parent: Pids, child: Pids, mnt: Mnts])
    /\ audit \in Seq([pid: Pids, class: Classes, beh: Behaviours, target: BOOLEAN])
    /\ modeling \in BOOLEAN /\ pc \in PCs
    /\ targetPIDs \subseteq Pids /\ pos \in Nat
    /\ result \subseteq Classes \X Behaviours
    /\ status \in {None, "default", "succeeded"} /\ ioFailed \in BOOLEAN

-----------------------------------------------------------------------------
(* The kernel, the tracer and the audit subsystem (spec 4.1; not src/).   *)

Alive == {p \in Pids : proc[p] # None}

\* A process forks; the child inherits namespace and confinement.
Fork(p, c) ==
    /\ modeling /\ Len(trace) < MaxEvents
    /\ p \in Alive /\ c \notin Alive
    /\ PidReuse \/ c \notin used
    /\ proc' = [proc EXCEPT ![c] = proc[p]]
    /\ used' = used \cup {c}
    /\ trace' = Append(trace, [type |-> "Fork", parent |-> p, child |-> c,
                               mnt |-> proc[p].mnt])
    /\ UNCHANGED <<audit, modeling, pc, targetPIDs, pos, result, status, ioFailed>>

\* An unconfined host process joins the container's mount namespace
\* (the runtime's exec into a running container); no trace event.
Setns(p) ==
    /\ modeling /\ p \in Alive
    /\ proc[p].conf = None /\ proc[p].mnt # CtrMnt
    /\ proc' = [proc EXCEPT ![p].mnt = CtrMnt]
    /\ UNCHANGED <<used, trace, audit, modeling, pc, targetPIDs, pos, result, status, ioFailed>>

\* A process execs; the runtime attaches the target profile to an
\* unconfined process that execs inside the container.
Exec(p) ==
    /\ modeling /\ Len(trace) < MaxEvents /\ p \in Alive
    /\ proc' = [proc EXCEPT ![p].conf =
                  IF @ = None /\ proc[p].mnt = CtrMnt THEN "target" ELSE @]
    /\ trace' = Append(trace, [type |-> "Exec", parent |-> p, child |-> p,
                               mnt |-> proc[p].mnt])
    /\ UNCHANGED <<used, audit, modeling, pc, targetPIDs, pos, result, status, ioFailed>>

\* A confined process does something its profile audits.
Act(p) ==
    /\ modeling /\ Len(audit) < MaxLines
    /\ p \in Alive /\ proc[p].conf # None
    /\ \E c \in Classes, b \in Behaviours :
          audit' = Append(audit, [pid |-> p, class |-> c, beh |-> b,
                                  target |-> proc[p].conf = "target"])
    /\ UNCHANGED <<proc, used, trace, modeling, pc, targetPIDs, pos, result, status, ioFailed>>

Exit(p) ==
    /\ modeling /\ p \in Alive
    /\ proc' = [proc EXCEPT ![p] = None]
    /\ UNCHANGED <<used, trace, audit, modeling, pc, targetPIDs, pos, result, status, ioFailed>>

\* The modeling duration is over: the agent stops tracing and calls Process.
StopModeling ==
    /\ modeling
    /\ modeling' = FALSE /\ pc' = "openTrace"
    /\ UNCHANGED <<proc, used, trace, audit, targetPIDs, pos, result, status, ioFailed>>

-----------------------------------------------------------------------------
(* The preprocessor (preprocessor.go). *)

\* NewDataPreprocessor: targetPIDs is seeded with the container's pids,
\* the result lists are empty.
NewDataPreprocessor(seeds) ==
    /\ targetPIDs = seeds /\ result = {} /\ status = None
    /\ pc = "idle" /\ pos = 0 /\ ioFailed = FALSE

\* Mutant: the event's mount namespace id is added instead of the child.
AddTargetMntId(pids, e) ==
    IF \/ e.parent # e.child /\ e.parent \in pids /\ e.child \notin pids
       \/ e.mnt = CtrMnt /\ e.child \notin pids
    THEN pids \cup {e.mnt} ELSE pids

\* Mutant: only the parent branch of the switch.
AddTargetForkOnly(pids, e) ==
    IF e.parent # e.child /\ e.parent \in pids /\ e.child \notin pids
    THEN pids \cup {e.child} ELSE pids

\* The switch of gatherTargetPIDs for one fork or exec event.
AddTarget(pids, e) ==
    IF \/ e.parent # e.child /\ e.parent \in pids /\ e.child \notin pids
       \/ e.mnt = CtrMnt /\ e.child \notin pids
    THEN pids \cup {e.child} ELSE pids

\* gatherTargetPIDs: os.Open of the BPF record file; on failure it logs
\* and returns, leaving targetPIDs as seeded.
OpenTrace ==
    /\ pc = "openTrace"
    /\ \/ pc' = "gather" /\ pos' = 1 /\ UNCHANGED ioFailed
       \/ IoFaults /\ pc' = "gathered" /\ ioFailed' = TRUE /\ UNCHANGED pos
    /\ UNCHANGED <<proc, used, trace, audit, modeling, targetPIDs, result, status>>

\* One decoder.Decode: any error, the end of the file included, ends the loop.
Gather ==
    /\ pc = "gather"
    /\ IF pos > Len(trace) THEN pc' = "gathered" /\ UNCHANGED <<targetPIDs, pos, ioFailed>>
       ELSE \/ targetPIDs' = AddTarget(targetPIDs, trace[pos]) /\ pos' = pos + 1
               /\ UNCHANGED <<pc, ioFailed>>
            \/ IoFaults /\ pc' = "gathered" /\ ioFailed' = TRUE
               /\ UNCHANGED <<targetPIDs, pos>>
    /\ UNCHANGED <<proc, used, trace, audit, modeling, result, status>>

\* Process: nothing to preprocess when targetPIDs is empty.
CheckTargets ==
    /\ pc = "gathered"
    /\ IF targetPIDs = {} THEN pc' = "done" /\ status' = "default"
       ELSE pc' = "openAudit" /\ UNCHANGED status
    /\ UNCHANGED <<proc, used, trace, audit, modeling, targetPIDs, pos, result, ioFailed>>

\* processAuditRecords: os.Open of the audit file; Process returns
\* defaultData when it fails.
OpenAudit ==
    /\ pc = "openAudit"
    /\ \/ pc' = "audit" /\ pos' = 1 /\ UNCHANGED <<status, ioFailed>>
       \/ IoFaults /\ pc' = "done" /\ status' = "default" /\ ioFailed' = TRUE
          /\ UNCHANGED pos
    /\ UNCHANGED <<proc, used, trace, audit, modeling, targetPIDs, result>>

\* Mutant: the pid filter is left out.
KeepAnyPid(line) == line.class \in Enforcer

\* The class of a line is parsed only if the enforcer contains it, and the
\* line is kept only if its pid is a target.
Keep(line) == line.class \in Enforcer /\ line.pid \in targetPIDs

\* One reader.ReadString: EOF or a read error ends the loop, which returns nil.
ReadAudit ==
    /\ pc = "audit"
    /\ IF pos > Len(audit) THEN pc' = "finish" /\ UNCHANGED <<result, pos, ioFailed>>
       ELSE \/ result' = (IF Keep(audit[pos]) THEN result \cup {<<audit[pos].class, audit[pos].beh>>}
                          ELSE result)
               /\ pos' = pos + 1 /\ UNCHANGED <<pc, ioFailed>>
            \/ IoFaults /\ pc' = "finish" /\ ioFailed' = TRUE /\ UNCHANGED <<result, pos>>
    /\ UNCHANGED <<proc, used, trace, audit, modeling, targetPIDs, status>>

\* Process: the behaviour data is marked succeeded and marshalled.
Finish ==
    /\ pc = "finish"
    /\ pc' = "done" /\ status' = "succeeded"
    /\ UNCHANGED <<proc, used, trace, audit, modeling, targetPIDs, pos, result, ioFailed>>

\* Modeling starts with the container running, or before it has started
\* (no seed pids; the runtime will exec its first process).
Init ==
    \E running \in BOOLEAN :
      LET init == IF running THEN CtrProcs @@ HostProcs ELSE HostProcs IN
      /\ proc = [p \in Pids |-> IF p \in DOMAIN init THEN init[p] ELSE None]
      /\ used = DOMAIN init
      /\ trace = <<>> /\ audit = <<>> /\ modeling = TRUE
      /\ NewDataPreprocessor(IF running THEN DOMAIN CtrProcs ELSE {})

Next ==
    \/ StopModeling
    \/ \E p \in Pids : Setns(p) \/ Exec(p) \/ Act(p) \/ Exit(p)
    \/ \E p, c \in Pids : Fork(p, c)
    \/ OpenTrace \/ Gather \/ CheckTargets \/ OpenAudit \/ ReadAudit \/ Finish

Spec == Init /\ [][Next]_vars

-----------------------------------------------------------------------------
(* Properties *)

\* What spec 4.1 says the result is: the behaviours, of a class the
\* enforcer selects, that processes confined by the target profile did.
Expected == {<<l.class, l.beh>> : l \in {l \in ToSet(audit) : l.target /\ l.class \in Enforcer}}

(* Soundness: the BehaviorData holds only behaviour of the target        *)
(* container.  gatherTargetPIDs never removes a pid and processAuditRecords *)
(* filters by pid only, so a pid of the container that another process    *)
(* reuses, or a process added to targetPIDs that is not in the container, *)
(* would bring another process's lines into the model.                    *)
AttributionSound == result \subseteq Expected

(* Completeness: when both files were read without error, every audited  *)
(* behaviour of the container is in the BehaviorData.  The one pass over  *)
(* the trace must reach every process of the container: children of its  *)
(* processes (fork events) and processes the runtime execs into it (exec  *)
(* events in its mount namespace), whichever of the two files records a   *)
(* process first.                                                         *)
AttributionComplete == pc = "done" /\ ~ioFailed => Expected \subseteq result

====
