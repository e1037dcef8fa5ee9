------------------------ MODULE MCMakerCoordination ------------------------
(* An auto buy/sell task that blocks one side of one market, and the        *)
(* rebalancer that blocks both sides of both; the second market is quoted   *)
(* on one side.                                                             *)
EXTENDS MakerCoordination, TLC

CONSTANTS task, rebalancer, ma, mb, buy, sell

BothAndOneSide == (ma :> Sides) @@ (mb :> {sell})
TaskAndRebalancer ==
    (task :> [m \in Makers |-> IF m = ma THEN {sell} ELSE {}]) @@
    (rebalancer :> [m \in Makers |-> Sides])
ByName == (task :> 1) @@ (rebalancer :> 2)
=============================================================================
