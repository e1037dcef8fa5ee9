-------------------------- MODULE MCConfigVersions --------------------------
(* Instances of ConfigVersions for TLC. *)
EXTENDS ConfigVersions

CONSTANTS a, b
=============================================================================
