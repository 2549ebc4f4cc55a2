-------------------------------- MODULE MCDemo -------------------------------
(* Demo for TLC: all scenarios that need no layer shell. *)
EXTENDS Demo
MCScenarios == DOMAIN Runners
=============================================================================
