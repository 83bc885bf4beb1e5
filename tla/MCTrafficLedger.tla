-------------------------- MODULE MCTrafficLedger --------------------------
(* TrafficLedger on small instances. *)
EXTENDS TrafficLedger, TLC

RowSymmetry == Permutations(Rows)
=============================================================================
