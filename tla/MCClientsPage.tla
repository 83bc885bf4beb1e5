---------------------------- MODULE MCClientsPage ----------------------------
(* Model-checking instances of ClientsPage. *)
EXTENDS ClientsPage
=============================================================================
