--------------------------- MODULE ProfileModelMerge ---------------------------
(***************************************************************************)
(* internal/status/common/common.go: MergeAppArmorResult and               *)
(* MergeSeccompResult, which fold the behaviour an agent observed on one   *)
(* node into the DynamicResult of the ArmorProfileModel.  Every list is    *)
(* a sequence and every "find, else append" loop is a left fold over the   *)
(* incoming list.  Profile names, paths, permissions, capabilities,        *)
(* network tuples, peers, signals, unhandled tokens and syscalls are       *)
(* model values.                                                           *)
(***************************************************************************)
EXTENDS SequencesExt, Naturals

CONSTANTS
    NoPath,   \* "": a file access without a prior path
    None      \* nil: a result without an AppArmor or Seccomp part

\* The "for _, x := range list { if x == new { find = true } }; if !find
\* { append }" loop: the list keeps one copy of x.  The inner range is taken
\* afresh for every new element, so duplicates inside new are dropped too.
AppendNew(list, x) == IF x \in ToSet(list) THEN list ELSE Append(list, x)

MergeList(list, new) == FoldLeft(AppendNew, list, new)

\* The permission loops of files, ptraces and signals compare with the copy
\* of the entry that range made, so only the entry's old permissions are
\* looked at: each new one missing from them is appended.
AddPerms(old, new) == old \o SelectSeq(new, LAMBDA p : p \notin ToSet(old))

\* The identity of a file entry and of a ptrace or signal entry.
FileKey == {"path", "owner"}
PeerKey == {"peer"}

SameFile(f, g) == \A k \in FileKey : f[k] = g[k]
SamePeer(f, g) == \A k \in PeerKey : f[k] = g[k]

\* The index of the first entry with new's key, if any (the loop breaks there).
FirstMatch(list, new, key) ==
    LET Match(i) == \A k \in key : list[i][k] = new[k]
    IN {i \in DOMAIN list : Match(i) /\ \A j \in 1..(i - 1) : ~Match(j)}

\* Mutant: a file already in the model keeps only its old permissions.
MergeFileKeepFirst(files, nf) ==
    IF FirstMatch(files, nf, FileKey) = {} THEN Append(files, nf) ELSE files

\* Files: same path and owner merge their permissions; the entry takes the
\* new OldPath only if it had none.
MergeFile(files, nf) ==
    LET m == FirstMatch(files, nf, FileKey) IN
    IF m = {} THEN Append(files, nf)
    ELSE LET i == CHOOSE i \in m : TRUE
             f == files[i]
         IN [files EXCEPT ![i] =
               [f EXCEPT !.permissions = AddPerms(f.permissions, nf.permissions),
                         !.oldPath = IF f.oldPath = NoPath /\ nf.oldPath # NoPath
                                     THEN nf.oldPath ELSE f.oldPath]]

MergePtrace(ptraces, np) ==
    LET m == FirstMatch(ptraces, np, PeerKey) IN
    IF m = {} THEN Append(ptraces, np)
    ELSE LET i == CHOOSE i \in m : TRUE IN
         [ptraces EXCEPT ![i].permissions = AddPerms(@, np.permissions)]

MergeSignal(signals, ns) ==
    LET m == FirstMatch(signals, ns, PeerKey) IN
    IF m = {} THEN Append(signals, ns)
    ELSE LET i == CHOOSE i \in m : TRUE IN
         [signals EXCEPT ![i].permissions = AddPerms(@, ns.permissions),
                         ![i].signals = AddPerms(@, ns.signals)]

EmptyAppArmor ==
    [profiles |-> <<>>, executions |-> <<>>, files |-> <<>>, capabilities |-> <<>>,
     networks |-> <<>>, ptraces |-> <<>>, signals |-> <<>>, unhandled |-> <<>>]

\* MergeAppArmorResult: nothing for a nil result; a nil AppArmor part of the
\* model is created empty first.
MergeAppArmorResult(cur, new) ==
    IF new = None THEN cur
    ELSE LET a == IF cur = None THEN EmptyAppArmor ELSE cur IN
         [profiles     |-> MergeList(a.profiles, new.profiles),
          executions   |-> MergeList(a.executions, new.executions),
          files        |-> FoldLeft(MergeFile, a.files, new.files),
          capabilities |-> MergeList(a.capabilities, new.capabilities),
          networks     |-> MergeList(a.networks, new.networks),
          ptraces      |-> FoldLeft(MergePtrace, a.ptraces, new.ptraces),
          signals      |-> FoldLeft(MergeSignal, a.signals, new.signals),
          unhandled    |-> MergeList(a.unhandled, new.unhandled)]

MergeSeccompResult(cur, new) ==
    IF new = None THEN cur
    ELSE LET s == IF cur = None THEN [syscalls |-> <<>>] ELSE cur IN
         [syscalls |-> MergeList(s.syscalls, new.syscalls)]

\* Both merges of one BehaviorData into the model's DynamicResult.
MergeDynamicResult(model, data) ==
    [appArmor |-> MergeAppArmorResult(model.appArmor, data.appArmor),
     seccomp  |-> MergeSeccompResult(model.seccomp, data.seccomp)]

EmptyModel == [appArmor |-> None, seccomp |-> None]

-----------------------------------------------------------------------------
(* The reference: what spec 2 and 4.1 say the model is, the union of what  *)
(* was observed, deduplicated by identity, with permission sub-lists       *)
(* united, and the prior path of a file one that some node observed.       *)

Parts(rs, part) == {r[part] : r \in {r \in rs : r[part] # None}}

Observed(rs, part, field) == UNION {ToSet(x[field]) : x \in Parts(rs, part)}

\* A list with no element twice and exactly the observed elements.
IsUnionOf(list, elems) == IsInjective(list) /\ ToSet(list) = elems

\* A keyed list: one entry per observed key, whose sub-lists are the union
\* of the sub-lists observed under that key.
IsKeyedUnionOf(list, obs, Same(_, _), subs) ==
    /\ \A i, j \in DOMAIN list : i # j => ~Same(list[i], list[j])
    /\ \A x \in obs : \E i \in DOMAIN list : Same(list[i], x)
    /\ \A i \in DOMAIN list :
         LET under == {x \in obs : Same(x, list[i])} IN
         /\ under # {}
         /\ \A s \in subs : IsUnionOf(list[i][s], UNION {ToSet(x[s]) : x \in under})

PriorPathObserved(files, obs) ==
    \A i \in DOMAIN files :
        LET paths == {x.oldPath : x \in {x \in obs : SameFile(x, files[i])}} \ {NoPath}
        IN IF paths = {} THEN files[i].oldPath = NoPath ELSE files[i].oldPath \in paths

IsMergeOf(model, rs) ==
    /\ (model.appArmor = None) <=> (Parts(rs, "appArmor") = {})
    /\ (model.seccomp = None) <=> (Parts(rs, "seccomp") = {})
    /\ model.appArmor # None =>
         LET a == model.appArmor
             Obs(f) == Observed(rs, "appArmor", f)
         IN /\ \A f \in {"profiles", "executions", "capabilities", "networks",
                         "unhandled"} : IsUnionOf(a[f], Obs(f))
            /\ IsKeyedUnionOf(a.files, Obs("files"), SameFile, {"permissions"})
            /\ PriorPathObserved(a.files, Obs("files"))
            /\ IsKeyedUnionOf(a.ptraces, Obs("ptraces"), SamePeer, {"permissions"})
            /\ IsKeyedUnionOf(a.signals, Obs("signals"), SamePeer,
                              {"permissions", "signals"})
    /\ model.seccomp # None =>
         IsUnionOf(model.seccomp.syscalls, Observed(rs, "seccomp", "syscalls"))

==============================================================================
