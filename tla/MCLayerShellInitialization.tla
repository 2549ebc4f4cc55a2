--------------------- MODULE MCLayerShellInitialization ----------------------
(* Instances of LayerShellInitialization for TLC.                          *)
EXTENDS LayerShellInitialization
=============================================================================
