---------------------------- MODULE MCReverseWizard ----------------------------
(* Model-checking instance of ReverseWizard: the bounds are in the cfg.     *)
EXTENDS ReverseWizard
=============================================================================
