------------------------- MODULE MCOverlayController -------------------------
(* OverlayController for TLC. *)
EXTENDS OverlayController
=============================================================================
