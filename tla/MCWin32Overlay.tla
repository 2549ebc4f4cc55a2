---------------------------- MODULE MCWin32Overlay ---------------------------
(* Win32Overlay for TLC. *)
EXTENDS Win32Overlay
=============================================================================
