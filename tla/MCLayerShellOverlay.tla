------------------------- MODULE MCLayerShellOverlay ------------------------
(* LayerShellOverlay for TLC: sizes and textures are interchangeable. *)
EXTENDS LayerShellOverlay, TLC

CONSTANTS small, large, t1, t2

Symmetry == Permutations(Sizes) \cup Permutations(Textures)
=============================================================================
