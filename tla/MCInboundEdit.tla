----------------------------- MODULE MCInboundEdit -----------------------------
(* Model-checking instance of InboundEdit: the bounds are in the cfg.       *)
EXTENDS InboundEdit
=============================================================================
