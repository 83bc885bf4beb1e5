----------------------------- MODULE MCOutboundEdit -----------------------------
(* Model-checking instance of OutboundEdit: the bounds are in the cfg.      *)
EXTENDS OutboundEdit
=============================================================================
