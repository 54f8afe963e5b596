----------------------------- MODULE MCConfigCycle -----------------------------
(* Contents that run, one that does not and one the check refuses. *)
EXTENDS ConfigCycle
================================================================================
