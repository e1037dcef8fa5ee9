---------------------------- MODULE MCBlueGreen ----------------------------
(* Instances of BlueGreen for TLC. *)
EXTENDS BlueGreen

CONSTANTS blue, green, legacy
=============================================================================
