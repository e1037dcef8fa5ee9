------------------------ MODULE MCRuntimeSupervisor ------------------------
(* Instances of RuntimeSupervisor for TLC. *)
EXTENDS RuntimeSupervisor, TLC

CONSTANTS p1, p2, p3

(* The processes are alike; used where no liveness property is checked. *)
SymmetricProcesses == Permutations(Processes)
=============================================================================
