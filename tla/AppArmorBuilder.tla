---------------------------- MODULE AppArmorBuilder ----------------------------
(***************************************************************************)
(* internal/profile/apparmor/builder.go: GenerateProfileWithBehaviorModel, *)
(* which turns the AppArmor part of a DynamicResult into a profile.  A     *)
(* rule is a record of what its text is made from.  A list the code sorts  *)
(* with sort.Strings before joining is its bag (the sorted text is a       *)
(* function of the bag); a list it joins unsorted stays a sequence.  The   *)
(* template and the base64 encoding are injective, so they are left out:   *)
(* the profile is <<name, sections>>.                                      *)
(***************************************************************************)
EXTENDS ProfileModelMerge

\* sort.Strings(rules) followed by strings.Join.
Sorted(rules) == ToBag(rules)

\* "<exec> ix,"
buildExecRules(a) == Sorted([i \in DOMAIN a.executions |-> <<"ix", a.executions[i]>>])

\* Mutant: the permissions joined as observed, without sort.Strings.
FilePermsUnsorted(perms) ==
    IF "a" \in ToSet(perms) /\ "w" \in ToSet(perms)
    THEN SelectSeq(perms, LAMBDA p : p # "a") ELSE perms

\* "a" is dropped when "w" is also there; the permissions are sorted.
FilePerms(perms) ==
    IF "a" \in ToSet(perms) /\ "w" \in ToSet(perms)
    THEN Sorted(SelectSeq(perms, LAMBDA p : p # "a")) ELSE Sorted(perms)

\* "[owner ]<path> <perms>,"
buildFileRules(a) ==
    Sorted([i \in DOMAIN a.files |->
              [owner |-> a.files[i].owner, path |-> a.files[i].path,
               perms |-> FilePerms(a.files[i].permissions)]])

\* "capability <cap>,"
buildCapabilityRules(a) == Sorted([i \in DOMAIN a.capabilities |-> <<"capability", a.capabilities[i]>>])

\* Allow-all "network," unless debug and something was observed.
buildNetworkRules(a, debug) ==
    IF debug /\ a.networks # <<>> THEN Sorted([i \in DOMAIN a.networks |-> <<"network", a.networks[i]>>])
    ELSE "network"

\* The fixed rule for the profile itself; in debug, the observed peers,
\* the rules sorted but each one's permissions joined as observed.
buildPtraceRules(a, name, debug) ==
    [self |-> name,
     observed |-> IF debug /\ a.ptraces # <<>>
                  THEN Sorted([i \in DOMAIN a.ptraces |->
                               [perms |-> a.ptraces[i].permissions, peer |-> a.ptraces[i].peer]])
                  ELSE <<>>]

\* The fixed rules; in debug, the observed signal rules, unsorted, with
\* peer= the profile's own name.
buildSignalRules(a, name, debug) ==
    [self |-> name,
     observed |-> IF debug /\ a.signals # <<>>
                  THEN [i \in DOMAIN a.signals |->
                         [perms |-> a.signals[i].permissions,
                          signals |-> a.signals[i].signals, peer |-> name]]
                  ELSE <<>>]

buildDefaultAllowRules == "umount"

\* An error when the model holds no profile name or more than one.
GenerateProfileWithBehaviorModel(a, debug) ==
    IF Len(a.profiles) # 1 THEN "error"
    ELSE LET name == a.profiles[1] IN
         <<name, <<buildExecRules(a), buildFileRules(a), buildCapabilityRules(a),
                   buildNetworkRules(a, debug), buildPtraceRules(a, name, debug),
                   buildSignalRules(a, name, debug), buildDefaultAllowRules>>>>

====
