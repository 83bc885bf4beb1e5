---------------------------- MODULE MCSettingsPage ----------------------------
(* Model-checking instances of SettingsPage. *)
EXTENDS SettingsPage
=============================================================================
