---------------------------- MODULE MCLayerShell ----------------------------
(* LayerShellController for TLC: sizes are interchangeable. *)
EXTENDS LayerShellImplementation, TLC

CONSTANTS small, large

SizeSymmetry == Permutations(Sizes)
=============================================================================
