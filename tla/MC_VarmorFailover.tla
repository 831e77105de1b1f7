--------------------------- MODULE MC_VarmorFailover ---------------------------
(* Instances of VarmorFailover for TLC, over the sets of MC_VarmorSystem.  *)
EXTENDS MC_VarmorSystem, VarmorFailover

==============================================================================
