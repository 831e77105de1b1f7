------------------------------ MODULE Enforcers ------------------------------
(***************************************************************************)
(* The enforcer bitset of a policy.  GetEnforcerType (internal/types, not  *)
(* under src/) turns the policy's enforcer string into a bitset over       *)
(* AppArmor, BPF and Seccomp.  The model keeps the bitset as the set of    *)
(* its bits: & is \cap, | is \cup, and two bitsets are equal iff the sets  *)
(* are.                                                                    *)
(***************************************************************************)

AppArmor == "AppArmor"
BPF      == "BPF"
Seccomp  == "Seccomp"

EnforcerBits == {AppArmor, BPF, Seccomp}

\* Every non-empty enforcer a policy can name.
EnforcerTypes == SUBSET EnforcerBits \ {{}}

(***************************************************************************)
(* The guard of policycacher.update*Policy and of ignoreUpdate:            *)
(*   (new & old != old) && (new | BPF != old)                              *)
(* TRUE means the update is refused.                                       *)
(***************************************************************************)
RemovesActivatedEnforcer(old, new) ==
    /\ new \cap old # old
    /\ new \cup {BPF} # old

\* What the guard's comment and the spec promise to refuse: the update drops
\* an AppArmor or Seccomp bit (BPF alone may come and go).
DropsAppArmorOrSeccomp(old, new) == (old \ new) \ {BPF} # {}

==============================================================================
