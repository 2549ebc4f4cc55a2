-------------------------- MODULE MCReleasePipeline --------------------------
(* Instances of ReleasePipeline for TLC.                                   *)
EXTENDS ReleasePipeline
=============================================================================
