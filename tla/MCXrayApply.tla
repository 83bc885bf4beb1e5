---------------------------- MODULE MCXrayApply ----------------------------
(* Model-checking instance of XrayApply: interchangeable task slots. *)
EXTENDS XrayApply, TLC

TaskSymmetry == Permutations(Tasks)
=============================================================================
