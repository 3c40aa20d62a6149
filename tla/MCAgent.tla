------------------------------ MODULE MCAgent ------------------------------
(* Instances of Agent for TLC: one target per language, small budgets.     *)
EXTENDS Agent
=============================================================================
