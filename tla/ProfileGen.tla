------------------------------ MODULE ProfileGen ------------------------------
(***************************************************************************)
(* internal/profile: the profile generator.  GenerateProfile maps the      *)
(* (mode, enforcer) of a policy to the payload of its ArmorProfile.  The   *)
(* payload text itself is abstracted to the template that produced it.     *)
(***************************************************************************)
EXTENDS VarmorState

\* The error result (a record, so TLC can compare it with a profile).
GenerateError == [error |-> "GenerateError"]

(***************************************************************************)
(* policy.Enforcer is matched as a string ("AppArmor", "BPF", "Seccomp"),  *)
(* so only a single-enforcer policy has a profile; any other string is     *)
(* "unknown enforcer".  hasModel says whether the ArmorProfileModel that   *)
(* DefenseInDepth reads exists.  bpfOk is the outcome of the bpfprofile   *)
(* generator (not under src/), whose error GenerateProfile returns for    *)
(* RuntimeDefault and EnhanceProtect (lines 81-84, 96-99).                *)
(***************************************************************************)
GenerateProfile(p, complete, hasModel, bpfOk) ==
    LET Is(e) == p.enforcer = {e}
        Make(m, c) == [enforcer |-> p.enforcer, mode |-> m, content |-> c]
    IN CASE p.mode \in {"AlwaysAllow", "RuntimeDefault", "EnhanceProtect"}
                /\ (Is(AppArmor) \/ Is(BPF))          -> Make("enforce", p.mode)
         [] p.mode \in {"RuntimeDefault", "EnhanceProtect"} /\ Is(BPF) /\ ~bpfOk
                                                      -> GenerateError
         [] p.mode = "BehaviorModeling" /\ Is(AppArmor) /\ complete
                                                      -> Make("enforce", "AlwaysAllow")
         [] p.mode = "BehaviorModeling" /\ Is(AppArmor)
                                                      -> Make("complain", "BehaviorModeling")
         [] p.mode = "BehaviorModeling" /\ Is(Seccomp)
                                                      -> Make("complain", "BehaviorModeling")
         [] p.mode = "DefenseInDepth" /\ (Is(AppArmor) \/ Is(Seccomp)) /\ hasModel
                                                      -> Make("enforce", "DefenseInDepth")
         [] OTHER                                     -> GenerateError

\* NewArmorProfile for a cluster-scope policy: the profile is generated with
\* complete = FALSE, the target is copied, BehaviorModeling is left unset.
NewArmorProfile(p, hasModel, bpfOk) ==
    LET prof == GenerateProfile(p, FALSE, hasModel, bpfOk)
    IN IF prof = GenerateError THEN GenerateError
       ELSE [profile |-> prof, target |-> p.target, bmEnable |-> FALSE]

==============================================================================
