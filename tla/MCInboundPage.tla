----------------------------- MODULE MCInboundPage -----------------------------
(* Model-checking instance of InboundPage: the bounds are in the cfgs.      *)
EXTENDS InboundPage, TLC

Interchangeable == Permutations(Slots)
=============================================================================
