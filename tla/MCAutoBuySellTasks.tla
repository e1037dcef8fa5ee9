------------------------- MODULE MCAutoBuySellTasks -------------------------
(* Instances of AutoBuySellTasks for TLC. *)
EXTENDS AutoBuySellTasks

CONSTANTS t1, t2, o1, o2, o3
=============================================================================
